---------------------------- MODULE Spec2Model ----------------------------
(*************************************************************************)
(* Hybrid job recommendation service: the engine                          *)
(* (recommendation_engine.py), its data-access collaborator (database.py), *)
(* its configuration (config.py) and the HTTP endpoint that calls it       *)
(* (main.py).                                                              *)
(*                                                                         *)
(* Scores are Python floats in the source.  Here a score is an integer     *)
(* number of millionths (Scale stands for 1.0) and a weight is an integer  *)
(* number of hundredths; a quotient is rounded down to the millionth.      *)
(* Strings are sequences of one-character strings, so that lower(),        *)
(* substring tests, joins and the \w+ tokenizer are computed as the source *)
(* computes them.                                                          *)
(*************************************************************************)
EXTENDS Integers, Sequences, FiniteSets, TLC

-----------------------------------------------------------------------------
(* Fixed point *)

Scale == 1000 * 1000

\* p hundredths as a score
Pct(p) == p * (Scale \div 100)

Min(a, b) == IF a <= b THEN a ELSE b
Max(a, b) == IF a >= b THEN a ELSE b
Abs(a) == IF a >= 0 THEN a ELSE 0 - a

\* name = v; F(name): v is evaluated once, as a Python assignment does, and
\* F is applied to the value
Bind(v, F(_)) == CHOOSE r \in {F(x) : x \in {v}} : TRUE

-----------------------------------------------------------------------------
(* Python values *)

PyNone == [tag |-> "None"]
PyList(s) == [tag |-> "list", items |-> s]
PyStr(t) == [tag |-> "str", val |-> t]

\* Python truthiness of None, a list or a str
Truthy(v) ==
    CASE v.tag = "None" -> FALSE
      [] v.tag = "list" -> v.items # <<>>
      [] v.tag = "str" -> v.val # <<>>

\* len(x) if x else 0
LenOrZero(v) == IF Truthy(v) THEN Len(v.items) ELSE 0

-----------------------------------------------------------------------------
(* Strings *)

UpperToLower ==
    ("A" :> "a") @@ ("B" :> "b") @@ ("C" :> "c") @@ ("D" :> "d") @@
    ("E" :> "e") @@ ("F" :> "f") @@ ("G" :> "g") @@ ("H" :> "h") @@
    ("I" :> "i") @@ ("J" :> "j") @@ ("K" :> "k") @@ ("L" :> "l") @@
    ("M" :> "m") @@ ("N" :> "n") @@ ("O" :> "o") @@ ("P" :> "p") @@
    ("Q" :> "q") @@ ("R" :> "r") @@ ("S" :> "s") @@ ("T" :> "t") @@
    ("U" :> "u") @@ ("V" :> "v") @@ ("W" :> "w") @@ ("X" :> "x") @@
    ("Y" :> "y") @@ ("Z" :> "z")

LowerLetters == {UpperToLower[c] : c \in DOMAIN UpperToLower}

Digits == {"0", "1", "2", "3", "4", "5", "6", "7", "8", "9"}

\* the characters the regular expression \w matches
WordChars == DOMAIN UpperToLower \cup LowerLetters \cup Digits \cup {"_"}

\* str.lower()
Lower(t) ==
    [i \in 1..Len(t) |->
        IF t[i] \in DOMAIN UpperToLower THEN UpperToLower[t[i]] ELSE t[i]]

\* needle in hay
Contains(hay, needle) ==
    \E i \in 0..(Len(hay) - Len(needle)) :
        SubSeq(hay, i + 1, i + Len(needle)) = needle

RECURSIVE Join(_, _)
\* sep.join(parts)
Join(parts, sep) ==
    IF parts = <<>> THEN <<>>
    ELSE IF Len(parts) = 1 THEN parts[1]
    ELSE parts[1] \o sep \o Join(Tail(parts), sep)

Space == <<" ">>

\* f"{a} {b}"
Fmt2(a, b) == a \o Space \o b

\* f"{a} {b} {c}"
Fmt3(a, b, c) == a \o Space \o b \o Space \o c

\* set(re.findall(r'\w+', t)): the maximal runs of word characters
FindallWords(t) ==
    LET IsWord(k) == t[k] \in WordChars
        starts == {i \in 1..Len(t) : IsWord(i) /\ (i = 1 \/ ~IsWord(i - 1))}
        EndOf(i) == CHOOSE j \in i..Len(t) :
                        /\ \A k \in i..j : IsWord(k)
                        /\ (j = Len(t) \/ ~IsWord(j + 1))
    IN {SubSeq(t, i, EndOf(i)) : i \in starts}

-----------------------------------------------------------------------------
(* Configuration: config.py.  Weights and thresholds in hundredths. *)

CONTENT_WEIGHT == 40
KNOWLEDGE_WEIGHT == 60
DEFAULT_MIN_RECOMMENDATION_SCORE == 30
TESTING_MIN_RECOMMENDATION_SCORE == 0
MAX_RECOMMENDATIONS == 50
SKILLS_WEIGHT == 30
EDUCATION_WEIGHT == 25
EXPERIENCE_WEIGHT == 20
COURSE_WEIGHT == 15
LOCATION_WEIGHT == 10
NLP_CACHE_SIZE == 1000
POPULAR_JOBS_LIMIT == 50

\* Config as get_config() returns it for ENVIRONMENT unset (DevelopmentConfig),
\* together with the two import-time flags of recommendation_engine.py.
DevelopmentConfig ==
    [ENVIRONMENT |-> "development",
     MIN_RECOMMENDATION_SCORE |-> Pct(DEFAULT_MIN_RECOMMENDATION_SCORE),
     USE_SEMANTIC_SIMILARITY |-> TRUE,
     ENABLE_POPULARITY_BOOST |-> TRUE,
     ENABLE_DIVERSITY_BOOST |-> TRUE,
     NLP_CACHE_SIZE |-> NLP_CACHE_SIZE,
     SENTENCE_TRANSFORMERS_AVAILABLE |-> TRUE,
     SKLEARN_AVAILABLE |-> TRUE]

\* ENVIRONMENT=testing
TestingConfig ==
    [DevelopmentConfig EXCEPT !.ENVIRONMENT = "testing",
        !.MIN_RECOMMENDATION_SCORE = Pct(TESTING_MIN_RECOMMENDATION_SCORE)]

\* the NLP_CACHE_SIZE of the deployment that runs with a small cache
SmallCacheSize == 2

\* The deployments explored: the environment variables config.py reads and the
\* optional libraries recommendation_engine.py finds at import.
Deployments ==
    {DevelopmentConfig,
     TestingConfig,
     [DevelopmentConfig EXCEPT !.SENTENCE_TRANSFORMERS_AVAILABLE = FALSE],
     [DevelopmentConfig EXCEPT !.SENTENCE_TRANSFORMERS_AVAILABLE = FALSE,
                               !.SKLEARN_AVAILABLE = FALSE],
     [DevelopmentConfig EXCEPT !.ENABLE_POPULARITY_BOOST = FALSE],
     [DevelopmentConfig EXCEPT !.ENABLE_DIVERSITY_BOOST = FALSE],
     [DevelopmentConfig EXCEPT !.NLP_CACHE_SIZE = SmallCacheSize]}

-----------------------------------------------------------------------------
(* String literals of the source and of the database contents *)

ALUMNI == <<"a", "l", "u", "m", "n", "i">>
OJT == <<"O", "J", "T">>
GRADUATED == <<"g", "r", "a", "d", "u", "a", "t", "e", "d">>
CURRENT == <<"c", "u", "r", "r", "e", "n", "t">>
ENTRY_LEVEL == <<"e", "n", "t", "r", "y", "-", "l", "e", "v", "e", "l">>
MID_LEVEL == <<"m", "i", "d", "-", "l", "e", "v", "e", "l">>
SENIOR_LEVEL == <<"s", "e", "n", "i", "o", "r", "-", "l", "e", "v", "e", "l">>
EXECUTIVE == <<"e", "x", "e", "c", "u", "t", "i", "v", "e">>
UNKNOWN == <<"U", "n", "k", "n", "o", "w", "n">>
BSIT == <<"B", "S", "I", "T">>
BSBA == <<"B", "S", "B", "A">>
CAT_IT == <<"I", "T">>
CAT_HR == <<"H", "R">>

-----------------------------------------------------------------------------
(* Database contents.  The tables are constants; dbVer says which snapshot  *)
(* of them the database currently holds.                                    *)

UserIds == {1, 2, 3}
JobIds == {1, 2, 3, 4}

\* user_profiles joined with user_courses and courses, one row per user;
\* user 3 has no row
UserProfileRows ==
    (1 :> [user_id |-> 1, first_name |-> <<"A", "n", "a">>, last_name |-> <<"C", "r", "u", "z">>,
           student_type |-> ALUMNI, age |-> 24, profile_completed |-> 1,
           courses |-> <<BSIT>>, graduation_statuses |-> <<GRADUATED>>]) @@
    (2 :> [user_id |-> 2, first_name |-> <<"B", "e", "n">>, last_name |-> <<"D", "i", "a", "z">>,
           student_type |-> OJT, age |-> 20, profile_completed |-> 0,
           courses |-> <<BSIT>>, graduation_statuses |-> <<CURRENT>>]) @@
    (4 :> [user_id |-> 4, first_name |-> <<"C", "y">>, last_name |-> <<"L", "i", "m">>,
           student_type |-> ALUMNI, age |-> 23, profile_completed |-> 1,
           courses |-> <<BSIT>>, graduation_statuses |-> <<GRADUATED>>])

\* a JSON column holding text json.loads cannot parse
UnparsableJson == [tag |-> "unparsable"]

\* resumes, latest row per user; a JSON column holds the value it decodes
\* to, NULL (None) or text that does not parse.  User 4 completed a resume
\* whose work experience does not parse and whose education and summary
\* were never filled in
ResumeRows ==
    (1 :> [user_id |-> 1, status |-> "completed",
           professional_summary |-> PyStr(<<"d", "e", "v">>),
           skills |-> PyList(<<[kind |-> "str", val |-> <<"P", "y">>],
                               [kind |-> "name", val |-> <<"S", "Q", "L">>]>>),
           work_experience |-> PyList(<<[jobTitle |-> <<"d", "e", "v">>, company |-> <<"a", "c", "m", "e">>,
                                         description |-> <<"a", "p", "i">>]>>),
           education |-> PyList(<<[degree |-> <<"b", "s">>, fieldOfStudy |-> <<"i", "t">>,
                                   school |-> <<"a", "c", "c">>]>>),
           languages |-> PyList(<<[kind |-> "language", val |-> <<"e", "n">>]>>),
           hobbies |-> PyStr(<<>>)]) @@
    (2 :> [user_id |-> 2, status |-> "draft",
           professional_summary |-> PyStr(<<"o", "j", "t">>),
           skills |-> PyList(<<[kind |-> "str", val |-> <<"P", "y">>]>>),
           work_experience |-> PyList(<<>>),
           education |-> PyList(<<>>),
           languages |-> PyList(<<>>),
           hobbies |-> PyStr(<<>>)]) @@
    (4 :> [user_id |-> 4, status |-> "completed",
           professional_summary |-> PyNone,
           skills |-> PyList(<<[kind |-> "str", val |-> <<"P", "y">>]>>),
           work_experience |-> UnparsableJson,
           education |-> PyNone,
           languages |-> PyList(<<>>),
           hobbies |-> PyStr(<<>>)])

\* jobs joined with company_profiles / coordinator_profiles: the columns that
\* do not change between snapshots
JobRows ==
    (1 :> [id |-> 1, title |-> <<"P", "y", " ", "D", "e", "v">>, category |-> CAT_IT,
           description |-> PyStr(<<"S", "Q", "L", " ", "a", "p", "i">>), summary |-> PyNone,
           location |-> <<"m", "n", "l">>, work_type |-> <<"f", "u", "l", "l">>,
           work_arrangement |-> <<"o", "n", "s", "i", "t", "e">>, experience_level |-> ENTRY_LEVEL,
           min_salary |-> PyNone, max_salary |-> PyNone,
           company_name |-> <<"a", "c", "m", "e">>, created_at |-> 4]) @@
    (2 :> [id |-> 2, title |-> <<"P", "y", " ", "D", "e", "v">>, category |-> CAT_IT,
           description |-> PyStr(<<"S", "Q", "L", " ", "a", "p", "i">>), summary |-> PyNone,
           location |-> <<"c", "e", "b">>, work_type |-> <<"f", "u", "l", "l">>,
           work_arrangement |-> <<"r", "e", "m", "o", "t", "e">>, experience_level |-> ENTRY_LEVEL,
           min_salary |-> PyNone, max_salary |-> PyNone,
           company_name |-> <<"b", "e", "t", "a">>, created_at |-> 3]) @@
    (3 :> [id |-> 3, title |-> <<"C", "l", "e", "r", "k">>, category |-> CAT_HR,
           description |-> PyNone, summary |-> PyStr(<<"f", "i", "l", "e">>),
           location |-> <<"m", "n", "l">>, work_type |-> <<"p", "a", "r", "t">>,
           work_arrangement |-> <<"o", "n", "s", "i", "t", "e">>, experience_level |-> MID_LEVEL,
           min_salary |-> PyNone, max_salary |-> PyNone,
           company_name |-> UNKNOWN, created_at |-> 2]) @@
    (4 :> [id |-> 4, title |-> <<"C", "h", "i", "e", "f">>, category |-> CAT_HR,
           description |-> PyStr(<<"l", "e", "d">>), summary |-> PyNone,
           location |-> <<"m", "n", "l">>, work_type |-> <<"f", "u", "l", "l">>,
           work_arrangement |-> <<"o", "n", "s", "i", "t", "e">>, experience_level |-> EXECUTIVE,
           min_salary |-> PyNone, max_salary |-> PyNone,
           company_name |-> <<"a", "c", "m", "e">>, created_at |-> 1])

\* per snapshot: the jobs with status = 'active' and an open deadline, the
\* number of job_applications rows per job, and the job_categories rows
DbSnapshots ==
    (1 :> [open |-> {1, 2, 3, 4},
           applications |-> (1 :> 5) @@ (2 :> 3) @@ (3 :> 9) @@ (4 :> 0),
           job_categories |-> {<<BSIT, CAT_IT>>}]) @@
    (2 :> [open |-> {1, 3, 4},
           applications |-> (1 :> 5) @@ (2 :> 3) @@ (3 :> 9) @@ (4 :> 12),
           job_categories |-> {<<BSIT, CAT_IT>>, <<BSIT, CAT_HR>>, <<BSBA, CAT_HR>>}]) @@
    (3 :> [open |-> {},
           applications |-> (1 :> 5) @@ (2 :> 3) @@ (3 :> 9) @@ (4 :> 12),
           job_categories |-> {<<BSBA, CAT_HR>>}])

DbVersions == DOMAIN DbSnapshots

-----------------------------------------------------------------------------
(* database.py: DatabaseManager.  Every method runs its query inside        *)
(* try/except Exception; `fails` says that the query raised (pool lost,     *)
(* SQL error).                                                              *)

RECURSIVE OrderBy(_, _)
\* the rows of S in the order ORDER BY gives them: <<x, y>> \in before says
\* that x sorts before y
OrderBy(S, before) ==
    IF S = {} THEN <<>>
    ELSE Bind(CHOOSE x \in S : \A y \in S \ {x} : <<x, y>> \in before,
            LAMBDA first :
                Bind(S \ {first}, LAMBDA rest : <<first>> \o OrderBy(rest, before)))

\* LIMIT n
SqlLimit(rows, n) == SubSeq(rows, 1, Min(n, Len(rows)))

\* zip(a, b)
Zip(a, b) == [i \in 1..Min(Len(a), Len(b)) |-> <<a[i], b[i]>>]

get_user_profile(user_id, fails) ==
    IF fails THEN PyNone
    ELSE IF user_id \notin DOMAIN UserProfileRows THEN PyNone
    ELSE LET profile == UserProfileRows[user_id]
         IN [tag |-> "dict",
             first_name |-> profile.first_name,
             last_name |-> profile.last_name,
             student_type |-> profile.student_type,
             age |-> profile.age,
             profile_completed |-> profile.profile_completed,
             courses_list |->
                 IF profile.courses # <<>>
                 THEN Zip(profile.courses, profile.graduation_statuses)
                 ELSE <<>>]

\* a JSON field of the resume row after the parsing loop: NULL is left as
\* it is, text that does not parse is replaced by None
JsonField(column) ==
    IF column.tag = "unparsable" THEN PyNone ELSE column

get_user_resume(user_id, only_completed, fails) ==
    IF fails THEN PyNone
    ELSE IF user_id \notin DOMAIN ResumeRows THEN PyNone
    ELSE IF only_completed /\ ResumeRows[user_id].status # "completed" THEN PyNone
    ELSE LET resume == ResumeRows[user_id]
         IN [tag |-> "dict",
             professional_summary |-> resume.professional_summary,
             work_experience |-> JsonField(resume.work_experience),
             education |-> JsonField(resume.education),
             skills |-> JsonField(resume.skills),
             languages |-> JsonField(resume.languages),
             hobbies |-> resume.hobbies]

\* the columns the active-jobs query selects that the engine reads
AllJobKeys ==
    {"id", "title", "category", "description", "summary", "location",
     "work_type", "work_arrangement", "experience_level", "min_salary",
     "max_salary", "company_name", "application_count"}

\* a row of the active-jobs query
ActiveJobRow(ver, j) ==
    [id |-> JobRows[j].id,
     title |-> JobRows[j].title,
     category |-> JobRows[j].category,
     description |-> JobRows[j].description,
     summary |-> JobRows[j].summary,
     location |-> JobRows[j].location,
     work_type |-> JobRows[j].work_type,
     work_arrangement |-> JobRows[j].work_arrangement,
     experience_level |-> JobRows[j].experience_level,
     min_salary |-> JobRows[j].min_salary,
     max_salary |-> JobRows[j].max_salary,
     company_name |-> JobRows[j].company_name,
     application_count |-> DbSnapshots[ver].applications[j],
     keys |-> AllJobKeys]

\* ORDER BY j.created_at DESC
NewestFirst ==
    {p \in JobIds \X JobIds :
        JobRows[p[1]].created_at > JobRows[p[2]].created_at}

\* get_active_jobs without the WHERE clause: every job row, open or not
get_active_jobs_unfiltered(ver, limit, fails) ==
    IF fails THEN <<>>
    ELSE Bind(OrderBy(JobIds, NewestFirst),
            LAMBDA ids :
                Bind(IF limit # 0 THEN SqlLimit(ids, limit) ELSE ids,
                    LAMBDA jobs :
                        [i \in 1..Len(jobs) |-> ActiveJobRow(ver, jobs[i])]))

get_active_jobs(ver, limit, fails) ==
    IF fails THEN <<>>
    ELSE Bind(OrderBy(DbSnapshots[ver].open, NewestFirst),
            LAMBDA ids :
                Bind(IF limit # 0 THEN SqlLimit(ids, limit) ELSE ids,
                    LAMBDA jobs :
                        [i \in 1..Len(jobs) |-> ActiveJobRow(ver, jobs[i])]))

\* the course names and the category names in the order ORDER BY course_name,
\* category_name gives them
CourseOrder == <<BSBA, BSIT>>
CategoryOrder == <<CAT_HR, CAT_IT>>

RangeOf(seq) == {seq[i] : i \in DOMAIN seq}

get_job_categories_mapping(ver, fails) ==
    IF fails THEN <<>>
    ELSE LET results == DbSnapshots[ver].job_categories
         IN [course \in {row[1] : row \in results} |->
                SelectSeq(CategoryOrder, LAMBDA c : <<course, c>> \in results)]

\* ORDER BY application_count DESC, j.created_at DESC
MostAppliedFirst(apps) ==
    {p \in JobIds \X JobIds :
        \/ apps[p[1]] > apps[p[2]]
        \/ /\ apps[p[1]] = apps[p[2]]
           /\ JobRows[p[1]].created_at > JobRows[p[2]].created_at}

get_popular_jobs(ver, limit, fails) ==
    IF fails THEN <<>>
    ELSE Bind(MostAppliedFirst(DbSnapshots[ver].applications),
            LAMBDA before :
                Bind(OrderBy(DbSnapshots[ver].open, before),
                    LAMBDA rows : SqlLimit(rows, limit)))

\* log_recommendation_request without its try/except: a failed write raises
log_recommendation_request_unguarded(user_id, job_ids, scores, fails) ==
    IF job_ids = <<>> THEN [raised |-> FALSE, rows |-> <<>>]
    ELSE IF fails THEN [raised |-> TRUE, rows |-> <<>>]
    ELSE [raised |-> FALSE,
          rows |-> <<[user_id |-> user_id, recommended_jobs |-> job_ids,
                      scores |-> scores]>>]

\* the rows log_recommendation_request inserts into recommendation_logs, and
\* whether it raises to its caller
log_recommendation_request(user_id, job_ids, scores, fails) ==
    IF job_ids = <<>> THEN [raised |-> FALSE, rows |-> <<>>]
    ELSE IF fails THEN [raised |-> FALSE, rows |-> <<>>]
    ELSE [raised |-> FALSE,
          rows |-> <<[user_id |-> user_id, recommended_jobs |-> job_ids,
                      scores |-> scores]>>]

-----------------------------------------------------------------------------
(* recommendation_engine.py: feature builders *)

\* resume_data.get(key, default) for a key the resume query always selects
ExtractNames(value, dict_keys) ==
    IF value.tag = "list"
    THEN PyList(
            LET kept == SelectSeq(value.items,
                            LAMBDA item : item.kind \in dict_keys \cup {"str"})
            IN [i \in 1..Len(kept) |-> kept[i].val])
    ELSE PyList(<<>>)

_extract_skills_from_resume(resume_data) ==
    ExtractNames(resume_data.skills, {"name", "skill"})

_extract_languages_from_resume(resume_data) ==
    ExtractNames(resume_data.languages, {"language"})

\* _build_user_profile answering with a blank profile whatever the database
\* holds
_build_user_profile_blank(user_id, profile_fails, resume_fails) ==
    [tag |-> "UserProfile",
     user_id |-> user_id,
     first_name |-> <<>>,
     last_name |-> <<>>,
     student_type |-> OJT,
     courses |-> <<>>,
     age |-> 0,
     profile_completed |-> FALSE,
     has_completed_resume |-> FALSE,
     skills |-> PyNone,
     work_experience |-> PyNone,
     education |-> PyNone,
     professional_summary |-> PyNone,
     languages |-> PyNone,
     hobbies |-> PyNone]

\* None, or the UserProfile
_build_user_profile(user_id, profile_fails, resume_fails) ==
    LET profile_data == get_user_profile(user_id, profile_fails)
        resume_data == get_user_resume(user_id, TRUE, resume_fails)
        base == [tag |-> "UserProfile",
                 user_id |-> user_id,
                 first_name |-> profile_data.first_name,
                 last_name |-> profile_data.last_name,
                 student_type |-> profile_data.student_type,
                 courses |-> profile_data.courses_list,
                 age |-> profile_data.age,
                 profile_completed |-> profile_data.profile_completed # 0,
                 has_completed_resume |-> FALSE,
                 skills |-> PyNone,
                 work_experience |-> PyNone,
                 education |-> PyNone,
                 professional_summary |-> PyNone,
                 languages |-> PyNone,
                 hobbies |-> PyNone]
    IN IF profile_data.tag = "None" THEN PyNone
       ELSE IF resume_data.tag = "None" THEN base
       ELSE [base EXCEPT
                !.has_completed_resume = TRUE,
                !.skills = _extract_skills_from_resume(resume_data),
                !.work_experience = resume_data.work_experience,
                !.education = resume_data.education,
                !.professional_summary = resume_data.professional_summary,
                !.languages = _extract_languages_from_resume(resume_data),
                !.hobbies = resume_data.hobbies]

\* the keys _build_job_profile reads with job_data[...]
RequiredJobKeys ==
    {"id", "title", "category", "description", "location", "work_type",
     "work_arrangement", "experience_level"}

\* the JobProfile, or the KeyError job_data[...] raises
_build_job_profile(job_data) ==
    IF ~(RequiredJobKeys \subseteq job_data.keys) THEN [tag |-> "KeyError"]
    ELSE [tag |-> "JobProfile",
          job_id |-> job_data.id,
          title |-> job_data.title,
          category |-> job_data.category,
          description |->
              IF Truthy(job_data.description) THEN job_data.description.val
              ELSE <<>>,
          summary |-> job_data.summary,
          location |-> job_data.location,
          work_type |-> job_data.work_type,
          work_arrangement |-> job_data.work_arrangement,
          experience_level |-> job_data.experience_level,
          min_salary |-> job_data.min_salary,
          max_salary |-> job_data.max_salary,
          company_name |-> job_data.company_name,
          application_count |-> job_data.application_count]

-----------------------------------------------------------------------------
(* recommendation_engine.py: content scorer *)

Reason(msg, arg) == [msg |-> msg, arg |-> arg]

\* f"{job_profile.title} {job_profile.description}".lower()
SkillsJobText(job_profile) ==
    Lower(Fmt2(job_profile.title, job_profile.description))

_get_matching_skills(user_skills, job_profile) ==
    Bind(SkillsJobText(job_profile),
        LAMBDA job_text :
            SelectSeq(user_skills, LAMBDA skill : Contains(job_text, Lower(skill))))

_calculate_skills_match(user_skills, job_profile) ==
    IF user_skills = <<>> THEN 0
    ELSE (Len(_get_matching_skills(user_skills, job_profile)) * Scale)
            \div Len(user_skills)

\* experience_education_map.get(experience_level, 0.5), in hundredths
ExperienceEducationModifier(experience_level) ==
    CASE experience_level = ENTRY_LEVEL -> 80
      [] experience_level = MID_LEVEL -> 60
      [] experience_level = SENIOR_LEVEL -> 40
      [] experience_level = EXECUTIVE -> 20
      [] OTHER -> 50

_calculate_education_match(user_profile, job_profile) ==
    LET base_score == IF user_profile.student_type = ALUMNI THEN 80 ELSE 60
    IN base_score * ExperienceEducationModifier(job_profile.experience_level)
          * (Scale \div (100 * 100))

\* the experience match of a resume without work experience, whether or not
\* the user has a completed resume
_calculate_experience_match_without_resume_check(user_profile, job_profile) ==
    IF job_profile.experience_level = ENTRY_LEVEL THEN Pct(90)
    ELSE IF job_profile.experience_level = MID_LEVEL THEN Pct(40)
    ELSE IF job_profile.experience_level = SENIOR_LEVEL THEN Pct(30)
    ELSE Pct(20)

_calculate_experience_match(user_profile, job_profile) ==
    IF ~user_profile.has_completed_resume THEN Pct(30)
    ELSE LET experience_count == LenOrZero(user_profile.work_experience)
         IN IF job_profile.experience_level = ENTRY_LEVEL
            THEN (IF experience_count >= 0 THEN Pct(90) ELSE Pct(60))
            ELSE IF job_profile.experience_level = MID_LEVEL
            THEN (IF experience_count >= 1 THEN Pct(80) ELSE Pct(40))
            ELSE IF job_profile.experience_level = SENIOR_LEVEL
            THEN (IF experience_count >= 2 THEN Pct(70) ELSE Pct(30))
            ELSE (IF experience_count >= 3 THEN Pct(60) ELSE Pct(20))

RECURSIVE CourseMatchFrom(_, _, _, _)
\* the loop of _calculate_course_match, max_score so far
CourseMatchFrom(user_courses, job_category, mapping, max_score) ==
    IF user_courses = <<>> THEN max_score
    ELSE LET course_name == user_courses[1][1]
             graduation_status == user_courses[1][2]
             hit == /\ course_name \in DOMAIN mapping
                    /\ job_category \in RangeOf(mapping[course_name])
             score == IF graduation_status = GRADUATED THEN Pct(100) ELSE Pct(80)
         IN CourseMatchFrom(Tail(user_courses), job_category, mapping,
                IF hit THEN Max(max_score, score) ELSE max_score)

_calculate_course_match(user_courses, job_category, mapping) ==
    IF user_courses = <<>> THEN 0
    ELSE CourseMatchFrom(user_courses, job_category, mapping, 0)

\* weight (hundredths) times sub-score
Weighted(weight, sub_score) == (weight * sub_score) \div 100

\* the dimensions of the content score in the order the try block of
\* _calculate_content_score computes them
ContentDimensions == <<"skills", "education", "experience", "course", "location">>

\* what each dimension adds to the content score when its computation
\* returns: its weight times its sub-score
ContentContributions(user_profile, job_profile, mapping) ==
    [skills |->
        IF Truthy(user_profile.skills)
        THEN Weighted(SKILLS_WEIGHT,
                _calculate_skills_match(user_profile.skills.items, job_profile))
        ELSE 0,
     education |->
        Weighted(EDUCATION_WEIGHT,
            _calculate_education_match(user_profile, job_profile)),
     experience |->
        Weighted(EXPERIENCE_WEIGHT,
            _calculate_experience_match(user_profile, job_profile)),
     course |->
        Weighted(COURSE_WEIGHT,
            _calculate_course_match(user_profile.courses, job_profile.category,
                mapping)),
     location |-> Weighted(LOCATION_WEIGHT, Pct(50))]

\* _calculate_content_score when the computation of the sub-score of
\* `raising` raises ("none": nothing raises).  The five dimensions are in one
\* try block: the exception leaves the block, what the dimensions before it
\* added to score and reasons stays, and the except clause only logs.
\* [score, reasons]
_calculate_content_score_raising(user_profile, job_profile, mapping, raising) ==
    LET reached(d) ==
            \A k \in DOMAIN ContentDimensions :
                ContentDimensions[k] = raising =>
                    \E m \in 1..(k - 1) : ContentDimensions[m] = d
        has_skills == Truthy(user_profile.skills)
        skills_score ==
            IF has_skills
            THEN _calculate_skills_match(user_profile.skills.items, job_profile)
            ELSE 0
        matching_skills ==
            IF has_skills
            THEN _get_matching_skills(user_profile.skills.items, job_profile)
            ELSE <<>>
        education_score == _calculate_education_match(user_profile, job_profile)
        experience_score == _calculate_experience_match(user_profile, job_profile)
        course_score ==
            _calculate_course_match(user_profile.courses, job_profile.category, mapping)
        location_score == Pct(50)
        score ==
            (IF has_skills /\ reached("skills")
             THEN Weighted(SKILLS_WEIGHT, skills_score) ELSE 0)
            + (IF reached("education")
               THEN Weighted(EDUCATION_WEIGHT, education_score) ELSE 0)
            + (IF reached("experience")
               THEN Weighted(EXPERIENCE_WEIGHT, experience_score) ELSE 0)
            + (IF reached("course")
               THEN Weighted(COURSE_WEIGHT, course_score) ELSE 0)
            + (IF reached("location")
               THEN Weighted(LOCATION_WEIGHT, location_score) ELSE 0)
        reasons ==
            (IF has_skills /\ reached("skills") /\ skills_score > Pct(50)
                /\ matching_skills # <<>>
             THEN <<Reason("Skills match: ",
                        Join(SubSeq(matching_skills, 1, Min(3, Len(matching_skills))),
                             <<",", " ">>))>>
             ELSE <<>>)
            \o (IF reached("education") /\ education_score > Pct(50)
                THEN <<Reason("Education level matches {experience_level} requirements",
                           job_profile.experience_level)>>
                ELSE <<>>)
            \o (IF reached("experience") /\ experience_score > Pct(50)
                THEN <<Reason("Experience level aligns with {experience_level} role",
                           job_profile.experience_level)>>
                ELSE <<>>)
            \o (IF reached("course") /\ course_score > Pct(70)
                THEN <<Reason("Your course background fits {category} field",
                           job_profile.category)>>
                ELSE <<>>)
    IN [score |-> Min(Scale, score), reasons |-> reasons]

\* [score, reasons]: no sub-score computation raises
_calculate_content_score(user_profile, job_profile, mapping) ==
    _calculate_content_score_raising(user_profile, job_profile, mapping, "none")

\* _calculate_confidence
_calculate_confidence(user_profile, content_score, knowledge_score) ==
    LET c1 == Pct(50) + (IF user_profile.profile_completed THEN Pct(20) ELSE 0)
        c2 == c1 + (IF user_profile.has_completed_resume THEN Pct(30) ELSE 0)
        score_diff == Abs(content_score - knowledge_score)
        c3 == c2 + (IF score_diff < Pct(20) THEN Pct(10) ELSE 0)
    IN Min(Scale, c3)

-----------------------------------------------------------------------------
(* recommendation_engine.py: text similarity backends *)

RECURSIVE ExperienceTexts(_)
\* f"{job_title} {company} {description}" per work-experience entry
ExperienceTexts(entries) ==
    IF entries = <<>> THEN <<>>
    ELSE <<Fmt3(entries[1].jobTitle, entries[1].company, entries[1].description)>>
            \o ExperienceTexts(Tail(entries))

RECURSIVE EducationTexts(_)
\* f"{degree} {field} {school}" per education entry
EducationTexts(entries) ==
    IF entries = <<>> THEN <<>>
    ELSE <<Fmt3(entries[1].degree, entries[1].fieldOfStudy, entries[1].school)>>
            \o EducationTexts(Tail(entries))

_create_user_text(user_profile) ==
    LET text_parts ==
            (IF Truthy(user_profile.professional_summary)
             THEN <<user_profile.professional_summary.val>> ELSE <<>>)
            \o (IF Truthy(user_profile.skills)
                THEN <<Join(user_profile.skills.items, Space)>> ELSE <<>>)
            \o (IF Truthy(user_profile.work_experience)
                THEN ExperienceTexts(user_profile.work_experience.items) ELSE <<>>)
            \o (IF Truthy(user_profile.education)
                THEN EducationTexts(user_profile.education.items) ELSE <<>>)
            \o [i \in 1..Len(user_profile.courses) |->
                    Fmt2(user_profile.courses[i][1], user_profile.courses[i][2])]
    IN Bind(Join(text_parts, Space), Lower)

_create_job_text(job_profile) ==
    LET text_parts ==
            <<job_profile.title,
              job_profile.category,
              job_profile.description,
              IF Truthy(job_profile.summary) THEN job_profile.summary.val ELSE <<>>,
              job_profile.work_type,
              job_profile.experience_level>>
    IN Bind(Join(text_parts, Space), Lower)

\* hashlib.md5(f"{user_text}||{job_text}".encode()).hexdigest(); the digest is
\* taken to be injective on the strings the catalogue produces
CacheKey(user_text, job_text) == user_text \o <<"|", "|">> \o job_text

\* cosine_similarity of the two embeddings sentence_model.encode returns.  The
\* pretrained model is a fixed function of the two texts with values in
\* [-1, 1]; the table fixes one.
CosineTable == <<0 - Pct(20), Pct(60), Pct(35), Pct(90)>>

EmbeddingCosine(user_text, job_text) ==
    CosineTable[((Len(user_text) + Len(job_text)) % Len(CosineTable)) + 1]

\* the embedding path inserting whatever the size of the cache
_calculate_semantic_similarity_bert_uncapped(user_text, job_text, cache, conf) ==
    LET cache_key == CacheKey(user_text, job_text)
    IN IF cache_key \in DOMAIN cache
       THEN [similarity |-> cache[cache_key], cache |-> cache, hit |-> TRUE]
       ELSE IF ~conf.SKLEARN_AVAILABLE
       THEN [similarity |-> 0, cache |-> cache, hit |-> FALSE]
       ELSE LET similarity == EmbeddingCosine(user_text, job_text)
            IN [similarity |-> similarity,
                cache |-> cache @@ (cache_key :> similarity),
                hit |-> FALSE]

\* the embedding path returning the cosine as it is and caching it clamped
\* to [0, 1]
_calculate_semantic_similarity_bert_caching_clamped(user_text, job_text, cache, conf) ==
    LET cache_key == CacheKey(user_text, job_text)
    IN IF cache_key \in DOMAIN cache
       THEN [similarity |-> cache[cache_key], cache |-> cache, hit |-> TRUE]
       ELSE IF ~conf.SKLEARN_AVAILABLE
       THEN [similarity |-> 0, cache |-> cache, hit |-> FALSE]
       ELSE LET similarity == EmbeddingCosine(user_text, job_text)
            IN [similarity |-> similarity,
                cache |-> IF Cardinality(DOMAIN cache) < conf.NLP_CACHE_SIZE
                          THEN cache @@ (cache_key :> Max(0, Min(Scale, similarity)))
                          ELSE cache,
                hit |-> FALSE]

\* [similarity, cache, hit]
_calculate_semantic_similarity_bert(user_text, job_text, cache, conf) ==
    LET cache_key == CacheKey(user_text, job_text)
    IN IF cache_key \in DOMAIN cache
       THEN [similarity |-> cache[cache_key], cache |-> cache, hit |-> TRUE]
       ELSE IF ~conf.SKLEARN_AVAILABLE
       THEN \* cosine_similarity is not defined: NameError, caught
            [similarity |-> 0, cache |-> cache, hit |-> FALSE]
       ELSE LET similarity == EmbeddingCosine(user_text, job_text)
            IN [similarity |-> similarity,
                cache |-> IF Cardinality(DOMAIN cache) < conf.NLP_CACHE_SIZE
                          THEN cache @@ (cache_key :> similarity)
                          ELSE cache,
                hit |-> FALSE]

\* TfidfVectorizer(min_df=2, max_df=0.95): fit_transform raises ValueError
\* when max_df * n_docs < min_df
TFIDF_MIN_DF == 2
TFIDF_MAX_DF == 95

FitTransformRaises(n_docs) == TFIDF_MAX_DF * n_docs < TFIDF_MIN_DF * 100

\* the overlap taken over the first set alone: |A & B| / |A|
JaccardOfFirst(A, B) ==
    IF A = {} THEN 0
    ELSE (Cardinality(A \cap B) * Scale) \div Cardinality(A)

\* |A & B| / |A | B| as a score
Jaccard(A, B) ==
    IF A \cup B = {} THEN 0
    ELSE (Cardinality(A \cap B) * Scale) \div Cardinality(A \cup B)

\* fit_transform([user_text, job_text]) is given two documents, so it raises
\* and the except branch returns 0.0
_calculate_tfidf_similarity(user_text, job_text) ==
    IF FitTransformRaises(Len(<<user_text, job_text>>)) THEN 0
    ELSE \* not reached with two documents; the token overlap stands for
         \* the cosine of the two tf-idf rows
         Bind(FindallWords(user_text), LAMBDA user_words :
         Bind(FindallWords(job_text), LAMBDA job_words :
            Jaccard(user_words, job_words)))

_calculate_simple_text_similarity(user_text, job_text) ==
    Bind(Bind(Lower(user_text), FindallWords), LAMBDA user_words :
    Bind(Bind(Lower(job_text), FindallWords), LAMBDA job_words :
        IF user_words = {} \/ job_words = {} THEN 0
        ELSE Jaccard(user_words, job_words)))

-----------------------------------------------------------------------------
(* recommendation_engine.py: knowledge scorer *)

COMPLETE_RESUME == "Complete your resume for better job matching"

KnowledgeReasons(similarity) ==
    IF similarity > Pct(70)
    THEN <<Reason("Strong semantic match between your profile and job requirements", <<>>)>>
    ELSE IF similarity > Pct(50)
    THEN <<Reason("Good compatibility with job description", <<>>)>>
    ELSE IF similarity > Pct(30)
    THEN <<Reason("Some relevant experience matches job needs", <<>>)>>
    ELSE <<>>

\* [score, reasons, cache, calls]: calls lists the similarity backends
\* consulted, with the pair's cache key and, on the embedding path, whether
\* the cache served it
\* the part of _calculate_knowledge_score after the resume gate
SimilarityKnowledge(user_profile, job_profile, eng, cache, conf) ==
    Bind(_create_user_text(user_profile), LAMBDA user_text :
    Bind(_create_job_text(job_profile), LAMBDA job_text :
       IF user_text = <<>> \/ job_text = <<>>
       THEN [score |-> 0, reasons |-> <<>>, cache |-> cache, calls |-> <<>>]
       ELSE IF eng.sentence_model
       THEN Bind(_calculate_semantic_similarity_bert(user_text, job_text, cache, conf),
              LAMBDA r :
                [score |-> Min(Scale, r.similarity),
                 reasons |-> KnowledgeReasons(r.similarity),
                 cache |-> r.cache,
                 calls |-> <<[backend |-> "bert", job_id |-> job_profile.job_id,
                              key |-> CacheKey(user_text, job_text),
                              hit |-> r.hit]>>])
       ELSE IF eng.tfidf_vectorizer /\ conf.SKLEARN_AVAILABLE
       THEN Bind(_calculate_tfidf_similarity(user_text, job_text),
              LAMBDA similarity :
                [score |-> Min(Scale, similarity),
                 reasons |-> KnowledgeReasons(similarity),
                 cache |-> cache,
                 calls |-> <<[backend |-> "tfidf", job_id |-> job_profile.job_id,
                              key |-> CacheKey(user_text, job_text),
                              hit |-> FALSE]>>])
       ELSE Bind(_calculate_simple_text_similarity(user_text, job_text),
              LAMBDA similarity :
                [score |-> Min(Scale, similarity),
                 reasons |-> KnowledgeReasons(similarity),
                 cache |-> cache,
                 calls |-> <<[backend |-> "simple", job_id |-> job_profile.job_id,
                              key |-> CacheKey(user_text, job_text),
                              hit |-> FALSE]>>])))

\* _calculate_knowledge_score without the resume gate
_calculate_knowledge_score_ungated(user_profile, job_profile, eng, cache, conf) ==
    SimilarityKnowledge(user_profile, job_profile, eng, cache, conf)

_calculate_knowledge_score(user_profile, job_profile, eng, cache, conf) ==
    IF ~user_profile.has_completed_resume
    THEN [score |-> 0, reasons |-> <<Reason(COMPLETE_RESUME, <<>>)>>,
          cache |-> cache, calls |-> <<>>]
    ELSE SimilarityKnowledge(user_profile, job_profile, eng, cache, conf)

-----------------------------------------------------------------------------
(* recommendation_engine.py: hybrid composer *)

\* the two weights exchanged
HybridScoreSwapped(content_score, knowledge_score) ==
    (KNOWLEDGE_WEIGHT * content_score + CONTENT_WEIGHT * knowledge_score) \div 100

\* CONTENT_WEIGHT * content_score + KNOWLEDGE_WEIGHT * knowledge_score
HybridScore(content_score, knowledge_score) ==
    (CONTENT_WEIGHT * content_score + KNOWLEDGE_WEIGHT * knowledge_score) \div 100

\* the filter with the threshold left out
RetainedAnyScore(hybrid_score, conf) == hybrid_score >= 0

\* hybrid_score >= Config.MIN_RECOMMENDATION_SCORE
Retained(hybrid_score, conf) == hybrid_score >= conf.MIN_RECOMMENDATION_SCORE

\* The body of the loop of _calculate_hybrid_recommendations for one job.
\* raises: an exception is raised inside the try block once the two scores
\* are computed, so the job is skipped.  [keep, rec, cache, calls, scored]
ScoreOneJob(user_profile, job_profile, include_reasons, eng, cache, conf, raises) ==
    Bind(_calculate_content_score(user_profile, job_profile,
            eng.job_categories_mapping), LAMBDA content :
    Bind(_calculate_knowledge_score(user_profile, job_profile, eng, cache, conf),
        LAMBDA knowledge :
    LET hybrid_score == HybridScore(content.score, knowledge.score)
        confidence == _calculate_confidence(user_profile, content.score,
                        knowledge.score)
        all_reasons == IF include_reasons
                       THEN content.reasons \o knowledge.reasons
                       ELSE <<>>
        keep == ~raises /\ Retained(hybrid_score, conf)
    IN [keep |-> keep,
        rec |-> [job_id |-> job_profile.job_id,
                 content_score |-> content.score,
                 knowledge_score |-> knowledge.score,
                 hybrid_score |-> hybrid_score,
                 confidence |-> confidence,
                 reasons |-> all_reasons,
                 job_title |-> job_profile.title,
                 job_category |-> job_profile.category,
                 company_name |-> job_profile.company_name],
        cache |-> knowledge.cache,
        calls |-> knowledge.calls,
        scored |-> [job_id |-> job_profile.job_id, raised |-> raises,
                    content_score |-> content.score,
                    knowledge_score |-> knowledge.score,
                    knowledge_reasons |-> knowledge.reasons,
                    hybrid_score |-> hybrid_score,
                    retained |-> keep]]))

RECURSIVE HybridLoop(_, _, _, _, _, _, _)
\* for job_profile in job_profiles: ... ; acc is [recommendations, cache,
\* calls, scored] so far
HybridLoop(user_profile, job_profiles, include_reasons, eng, conf, raising, acc) ==
    IF job_profiles = <<>> THEN acc
    ELSE Bind(ScoreOneJob(user_profile, job_profiles[1], include_reasons,
                eng, acc.cache, conf, job_profiles[1].job_id \in raising),
            LAMBDA one :
         Bind([recommendations |->
                   IF one.keep THEN Append(acc.recommendations, one.rec)
                   ELSE acc.recommendations,
               cache |-> one.cache,
               calls |-> acc.calls \o one.calls,
               scored |-> Append(acc.scored, one.scored)],
            LAMBDA next_acc :
         Bind(Tail(job_profiles), LAMBDA remaining :
            HybridLoop(user_profile, remaining, include_reasons, eng, conf,
                raising, next_acc))))

_calculate_hybrid_recommendations(user_profile, job_profiles, include_reasons, eng, conf, raising) ==
    HybridLoop(user_profile, job_profiles, include_reasons, eng, conf, raising,
        [recommendations |-> <<>>, cache |-> eng.embeddings_cache,
         calls |-> <<>>, scored |-> <<>>])

-----------------------------------------------------------------------------
(* recommendation_engine.py: post-processor *)

\* popular_jobs.index(job_id), zero-based
IndexOf(seq, x) == (CHOOSE i \in DOMAIN seq :
                        seq[i] = x /\ \A k \in 1..(i - 1) : seq[k] # x) - 1

\* the boost growing with the index: 0.1 * (index + 1) / len(popular_jobs)
PopularityBoostReversed(popular_jobs, job_id) ==
    ((Scale \div 10) * ((CHOOSE i \in DOMAIN popular_jobs :
                            popular_jobs[i] = job_id)))
        \div Len(popular_jobs)

\* 0.1 * (1 - index / len(popular_jobs))
PopularityBoost(popular_jobs, job_id) ==
    ((Scale \div 10) * (Len(popular_jobs) - IndexOf(popular_jobs, job_id)))
        \div Len(popular_jobs)

ApplyPopularityBoost(rec, popular_jobs) ==
    IF rec.job_id \in RangeOf(popular_jobs)
    THEN LET boost == PopularityBoost(popular_jobs, rec.job_id)
         IN [rec EXCEPT
                !.hybrid_score = Min(Scale, rec.hybrid_score + boost),
                !.reasons = IF boost > Pct(5)
                            THEN Append(rec.reasons,
                                    Reason("Popular job opportunity", <<>>))
                            ELSE rec.reasons]
    ELSE rec

\* the diversity bonus, 0.05
DIVERSITY_BOOST == 5

\* the diversity bonus given to every recommendation, whatever its category
_apply_diversity_boost_to_all(recommendations) ==
    [i \in DOMAIN recommendations |->
        [recommendations[i] EXCEPT
            !.hybrid_score = Min(Scale, @ + Pct(DIVERSITY_BOOST))]]

\* the diversity bonus added without the clamp at 1.0
_apply_diversity_boost_unclamped(recommendations) ==
    [i \in DOMAIN recommendations |->
        IF Cardinality({k \in DOMAIN recommendations :
                recommendations[k].job_category
                    = recommendations[i].job_category}) = 1
        THEN [recommendations[i] EXCEPT !.hybrid_score = @ + Pct(DIVERSITY_BOOST)]
        ELSE recommendations[i]]

_apply_diversity_boost(recommendations) ==
    LET category_counts(c) ==
            Cardinality({i \in DOMAIN recommendations :
                            recommendations[i].job_category = c})
    IN [i \in DOMAIN recommendations |->
            IF category_counts(recommendations[i].job_category) = 1
            THEN [recommendations[i] EXCEPT
                    !.hybrid_score = Min(Scale, @ + Pct(DIVERSITY_BOOST))]
            ELSE recommendations[i]]

\* post-processing without the popularity boost
_apply_post_processing_diversity_only(recommendations, eng, conf) ==
    IF conf.ENABLE_DIVERSITY_BOOST
    THEN _apply_diversity_boost(recommendations)
    ELSE recommendations

\* post-processing that keeps only the candidates it boosts for popularity
_apply_post_processing_popular_only(recommendations, eng, conf) ==
    SelectSeq(recommendations, LAMBDA rec : rec.job_id \in RangeOf(eng.popular_jobs))

_apply_post_processing(recommendations, eng, conf) ==
    Bind(IF conf.ENABLE_POPULARITY_BOOST /\ eng.popular_jobs # <<>>
         THEN [i \in DOMAIN recommendations |->
                 ApplyPopularityBoost(recommendations[i], eng.popular_jobs)]
         ELSE recommendations,
        LAMBDA boosted :
            IF conf.ENABLE_DIVERSITY_BOOST
            THEN _apply_diversity_boost(boosted)
            ELSE boosted)

-----------------------------------------------------------------------------
(* recommendation_engine.py: sort and truncate *)

\* seq without its i-th element
RemoveAt(seq, i) == SubSeq(seq, 1, i - 1) \o SubSeq(seq, i + 1, Len(seq))

RECURSIVE SortByHybridScoreUnstable(_)
\* a descending sort that is not stable: among equal keys the last comes first
SortByHybridScoreUnstable(recs) ==
    IF recs = <<>> THEN <<>>
    ELSE Bind(CHOOSE k \in DOMAIN recs :
                /\ \A m \in DOMAIN recs :
                        recs[m].hybrid_score <= recs[k].hybrid_score
                /\ \A m \in (k + 1)..Len(recs) :
                        recs[m].hybrid_score < recs[k].hybrid_score,
            LAMBDA i :
                Bind(RemoveAt(recs, i),
                    LAMBDA rest : <<recs[i]>> \o SortByHybridScoreUnstable(rest)))

RECURSIVE SortByHybridScore(_)
\* recommendations.sort(key=lambda x: x.hybrid_score, reverse=True): list.sort
\* is stable, and with reverse=True equal keys keep their original order
SortByHybridScore(recs) ==
    IF recs = <<>> THEN <<>>
    ELSE Bind(CHOOSE k \in DOMAIN recs :
                /\ \A m \in DOMAIN recs :
                        recs[m].hybrid_score <= recs[k].hybrid_score
                /\ \A m \in 1..(k - 1) :
                        recs[m].hybrid_score < recs[k].hybrid_score,
            LAMBDA i :
                Bind(RemoveAt(recs, i),
                    LAMBDA rest : <<recs[i]>> \o SortByHybridScore(rest)))

\* recommendations[:limit + 1]
SliceToInclusive(recs, limit) ==
    IF limit + 1 >= 0 THEN SubSeq(recs, 1, Min(limit + 1, Len(recs)))
    ELSE SubSeq(recs, 1, Max(0, Len(recs) + limit + 1))

\* recommendations[:limit]
SliceTo(recs, limit) ==
    IF limit >= 0 THEN SubSeq(recs, 1, Min(limit, Len(recs)))
    ELSE SubSeq(recs, 1, Max(0, Len(recs) + limit))

-----------------------------------------------------------------------------
(* recommendation_engine.py: HybridJobRecommendationEngine.get_recommendations *)

NoException == [type |-> "none", msg |-> ""]
NOT_INITIALIZED == "Recommendation engine not initialized"
NO_PROFILE == "No profile found for user {user_id}"

\* the rows as the collaborator returns them, the row of job_id lacking its
\* 'title' column (job_id = 0: every row complete)
DropTitle(rows, job_id) ==
    [i \in DOMAIN rows |->
        IF rows[i].id = job_id
        THEN [rows[i] EXCEPT !.keys = @ \ {"title"}]
        ELSE rows[i]]

\* What one call does: the exception it raises or the list it returns, the
\* similarity cache it leaves, and what it did on the way (ready, had_profile,
\* jobs read, per-job scores, candidates after the filter, the ranked list,
\* the rows logged).
CallResult(exception, result, cache, ready, had_profile, jobs, h, ranked, log) ==
    [exception |-> exception,
     result |-> result,
     cache |-> cache,
     ready |-> ready,
     had_profile |-> had_profile,
     jobs |-> jobs,
     scored |-> h.scored,
     calls |-> h.calls,
     candidates |-> h.recommendations,
     ranked |-> ranked,
     log_called |-> log.called,
     logged |-> log.rows]

NothingScored == [scored |-> <<>>, calls |-> <<>>, recommendations |-> <<>>]
NotLogged == [called |-> FALSE, rows |-> <<>>]

\* is_ready with the check skipped
is_ready_unchecked(eng) == TRUE

is_ready(eng) == eng.is_initialized

get_recommendations(eng, conf, ver, user_id, limit, include_reasons, faults) ==
    IF ~is_ready(eng)
    THEN CallResult([type |-> "ValueError", msg |-> NOT_INITIALIZED], <<>>,
            eng.embeddings_cache, FALSE, FALSE, <<>>, NothingScored, <<>>, NotLogged)
    ELSE
    Bind(_build_user_profile(user_id, faults.profile, faults.resume),
        LAMBDA user_profile :
       IF user_profile.tag = "None"
       THEN CallResult([type |-> "ValueError", msg |-> NO_PROFILE], <<>>,
                eng.embeddings_cache, TRUE, FALSE, <<>>, NothingScored, <<>>, NotLogged)
       ELSE
    Bind(DropTitle(get_active_jobs(ver, MAX_RECOMMENDATIONS, faults.jobs),
            faults.bad_row), LAMBDA jobs :
    Bind([i \in DOMAIN jobs |-> jobs[i].id], LAMBDA job_ids_read :
       IF jobs = <<>>
       THEN CallResult(NoException, <<>>, eng.embeddings_cache, TRUE, TRUE, <<>>,
                NothingScored, <<>>, NotLogged)
       ELSE
    Bind([i \in DOMAIN jobs |-> _build_job_profile(jobs[i])],
        LAMBDA job_profiles :
       IF \E i \in DOMAIN job_profiles : job_profiles[i].tag = "KeyError"
       THEN CallResult([type |-> "KeyError", msg |-> "title"], <<>>,
                eng.embeddings_cache, TRUE, TRUE, job_ids_read, NothingScored,
                <<>>, NotLogged)
       ELSE
    Bind(_calculate_hybrid_recommendations(user_profile, job_profiles,
            include_reasons, eng, conf, faults.raising), LAMBDA h :
    Bind(_apply_post_processing(h.recommendations, eng, conf), LAMBDA processed :
    Bind(SortByHybridScore(processed), LAMBDA ranked :
    Bind(SliceTo(ranked, limit), LAMBDA final_recommendations :
    Bind(IF final_recommendations # <<>>
         THEN Bind(log_recommendation_request(user_id,
                        [i \in DOMAIN final_recommendations |->
                            final_recommendations[i].job_id],
                        [i \in DOMAIN final_recommendations |->
                            final_recommendations[i].hybrid_score],
                        faults.log),
                LAMBDA w : [called |-> TRUE, raised |-> w.raised, rows |-> w.rows])
         ELSE [called |-> FALSE, raised |-> FALSE, rows |-> <<>>], LAMBDA log :
       IF log.raised
       THEN CallResult([type |-> "Exception", msg |-> "log_recommendation_request"],
                <<>>, h.cache, TRUE, TRUE, job_ids_read, h, ranked, log)
       ELSE CallResult(NoException, final_recommendations, h.cache, TRUE, TRUE,
                job_ids_read, h, ranked, log))))))))))

-----------------------------------------------------------------------------
(* main.py: POST /recommendations *)

INTERNAL_SERVER_ERROR == "Internal server error"

\* HTTP status codes of main.py
HTTP_OK == 200
HTTP_BAD_REQUEST == 400
HTTP_INTERNAL_ERROR == 500

\* the status code and the detail the endpoint answers with
RecommendationsEndpoint(call) ==
    IF call.exception.type = "none"
    THEN [status_code |-> HTTP_OK, success |-> TRUE, detail |-> ""]
    ELSE IF call.exception.type = "ValueError"
    THEN [status_code |-> HTTP_BAD_REQUEST, success |-> FALSE,
          detail |-> call.exception.msg]
    ELSE [status_code |-> HTTP_INTERNAL_ERROR, success |-> FALSE,
          detail |-> INTERNAL_SERVER_ERROR]

-----------------------------------------------------------------------------
(* State *)

VARIABLES
    conf,                   \* Config and the import-time library flags
    dbVer,                  \* the snapshot the database holds
    is_initialized,         \* engine.is_initialized
    sentence_model,         \* engine.sentence_model is not None
    tfidf_vectorizer,       \* engine.tfidf_vectorizer is not None
    embeddings_cache,       \* engine.embeddings_cache
    job_categories_mapping, \* engine.job_categories_mapping
    popular_jobs,           \* engine.popular_jobs
    features_used,          \* engine.features_used
    resp,                   \* the call just made and its outcome, until answered
    served,                 \* the keys the cache has served since it was last cleared
    cleared,                \* the keys served before a retrain and not looked up since
    first_since_retrain,    \* the keys of cleared the call just made looked up
    tasks,                  \* the get_recommendations coroutines in flight
    retrain,                \* the retrain_models coroutine
    running,                \* the coroutine that holds the event loop, or 0
    last_initialize         \* the latest call of initialize, as InitSpec saw it

vars == <<conf, dbVer, is_initialized, sentence_model, tfidf_vectorizer,
          embeddings_cache, job_categories_mapping, popular_jobs,
          features_used, resp, served, cleared, first_since_retrain,
          tasks, retrain, running, last_initialize>>

engineVars == <<is_initialized, sentence_model, tfidf_vectorizer,
                embeddings_cache, job_categories_mapping, popular_jobs,
                features_used>>

\* what the cache has been seen to do: kept by CacheSpec, left alone by Spec
cacheHistory == <<served, cleared, first_since_retrain>>

\* the coroutines of ConcSpec; Spec and CacheSpec run one call at a time
coroutines == <<tasks, retrain, running>>

\* the engine's fields as one value
Engine ==
    [is_initialized |-> is_initialized,
     sentence_model |-> sentence_model,
     tfidf_vectorizer |-> tfidf_vectorizer,
     embeddings_cache |-> embeddings_cache,
     job_categories_mapping |-> job_categories_mapping,
     popular_jobs |-> popular_jobs,
     features_used |-> features_used]

-----------------------------------------------------------------------------
(* Bounds *)

\* the largest limit a request asks for (the smallest is -1)
MaxLimit == 2

\* the largest number of faults injected into one request
MaxFaults == 1

\* the requests that may be in flight together with the retrain
TaskIds == {1, 2}

Limits == (0 - 1)..MaxLimit

NoFaults ==
    [profile |-> FALSE, resume |-> FALSE, jobs |-> FALSE, log |-> FALSE,
     bad_row |-> 0, raising |-> {}]

BoolToNat(b) == IF b THEN 1 ELSE 0

\* the job rows that may come back without their title
BadRows == {4}

\* the jobs whose scoring may raise: the newest and the oldest
RaisingJobs == {1, 4}

\* profile, resume, jobs, log: that read or write of the database fails;
\* bad_row: the job row that comes back without its title; raising: the jobs
\* whose scoring raises
FaultCases ==
    {f \in [profile : BOOLEAN, resume : BOOLEAN, jobs : BOOLEAN, log : BOOLEAN,
            bad_row : {0} \cup BadRows, raising : SUBSET RaisingJobs] :
        BoolToNat(f.profile) + BoolToNat(f.resume) + BoolToNat(f.jobs)
            + BoolToNat(f.log) + BoolToNat(f.bad_row # 0)
            + Cardinality(f.raising) <= MaxFaults}

-----------------------------------------------------------------------------
(* Init: HybridJobRecommendationEngine.__init__ *)

Idle == [op |-> "idle"]

\* a slot for a request with no coroutine in it
NoTask == [pc |-> "idle"]

\* retrain_models not called yet
NoRetrain == [pc |-> "idle"]

\* initialize not called, or retrain_models called since
NoCall == [repeated |-> FALSE]

Init ==
    /\ conf \in Deployments
    /\ dbVer \in DbVersions
    /\ is_initialized = FALSE
    /\ sentence_model = FALSE
    /\ tfidf_vectorizer = FALSE
    /\ embeddings_cache = <<>>
    /\ job_categories_mapping = <<>>
    /\ popular_jobs = <<>>
    /\ features_used = <<>>
    /\ resp = Idle
    /\ served = {}
    /\ cleared = {}
    /\ first_since_retrain = {}
    /\ tasks = [t \in TaskIds |-> NoTask]
    /\ retrain = NoRetrain
    /\ running = 0
    /\ last_initialize = NoCall

-----------------------------------------------------------------------------
(* recommendation_engine.py: initialize and retrain_models *)

\* sentence_model after _load_ml_models; load_fails: SentenceTransformer(...)
\* raises
_load_ml_models_sentence_model(old, load_fails) ==
    IF conf.SENTENCE_TRANSFORMERS_AVAILABLE /\ conf.USE_SEMANTIC_SIMILARITY
    THEN ~load_fails
    ELSE old

\* _load_job_categories_mapping keeping the mapping the engine holds when the
\* read fails
_load_job_categories_mapping_retaining(fails) ==
    IF fails THEN job_categories_mapping
    ELSE get_job_categories_mapping(dbVer, FALSE)

_load_job_categories_mapping(fails) == get_job_categories_mapping(dbVer, fails)

\* _load_popular_jobs adding what it read to the list the engine holds
_load_popular_jobs_extending(old, fails) ==
    IF conf.ENABLE_POPULARITY_BOOST
    THEN old \o get_popular_jobs(dbVer, POPULAR_JOBS_LIMIT, fails)
    ELSE old

_load_popular_jobs(old, fails) ==
    IF conf.ENABLE_POPULARITY_BOOST
    THEN get_popular_jobs(dbVer, POPULAR_JOBS_LIMIT, fails)
    ELSE old

_set_algorithm_features(has_sentence_model, has_tfidf) ==
    <<"content_based_filtering", "skill_matching", "education_matching",
      "experience_matching", "course_category_mapping">>
    \o (IF has_sentence_model THEN <<"semantic_similarity_bert">>
        ELSE IF has_tfidf THEN <<"tfidf_similarity">>
        ELSE <<>>)
    \o (IF conf.ENABLE_POPULARITY_BOOST THEN <<"popularity_boost">> ELSE <<>>)
    \o (IF conf.ENABLE_DIVERSITY_BOOST THEN <<"diversity_boost">> ELSE <<>>)

Initialize(load_fails, mapping_fails, popular_fails) ==
    /\ resp = Idle
    /\ sentence_model' = _load_ml_models_sentence_model(sentence_model, load_fails)
    /\ tfidf_vectorizer' = (conf.SKLEARN_AVAILABLE \/ tfidf_vectorizer)
    /\ job_categories_mapping' = _load_job_categories_mapping(mapping_fails)
    /\ popular_jobs' = _load_popular_jobs(popular_jobs, popular_fails)
    /\ features_used' = _set_algorithm_features(sentence_model', tfidf_vectorizer')
    /\ is_initialized' = TRUE
    /\ resp' = [op |-> "initialize", exception |-> NoException]
    /\ UNCHANGED <<conf, dbVer, embeddings_cache>>

\* retrain_models with the cache left as it is
embeddings_cache_kept(cache) == cache

\* self.embeddings_cache.clear()
embeddings_cache_clear(cache) == <<>>

RetrainModels(mapping_fails, popular_fails) ==
    /\ resp = Idle
    /\ job_categories_mapping' = _load_job_categories_mapping(mapping_fails)
    /\ popular_jobs' = _load_popular_jobs(popular_jobs, popular_fails)
    /\ embeddings_cache' = embeddings_cache_clear(embeddings_cache)
    /\ resp' = [op |-> "retrain_models", exception |-> NoException,
                mapping_fails |-> mapping_fails,
                popular_fails |-> popular_fails]
    /\ UNCHANGED <<conf, dbVer, is_initialized, sentence_model,
                   tfidf_vectorizer, features_used>>

\* asyncio.CancelledError: a BaseException, which `except Exception` lets pass
CancelledError == [type |-> "CancelledError", msg |-> ""]

\* the awaits of initialize and retrain_models that suspend: the two reads
\* of the database
CancelStages == {"mapping", "popular"}

\* initialize setting the engine not ready on entry and cancelled at an await
InitializeCancelledUnready(stage, load_fails) ==
    /\ resp = Idle
    /\ stage = "popular" => conf.ENABLE_POPULARITY_BOOST
    /\ sentence_model' = _load_ml_models_sentence_model(sentence_model, load_fails)
    /\ tfidf_vectorizer' = (conf.SKLEARN_AVAILABLE \/ tfidf_vectorizer)
    /\ job_categories_mapping' =
            IF stage = "popular" THEN _load_job_categories_mapping(FALSE)
            ELSE job_categories_mapping
    /\ is_initialized' = FALSE
    /\ resp' = [op |-> "initialize", exception |-> CancelledError]
    /\ UNCHANGED <<conf, dbVer, embeddings_cache, popular_jobs, features_used>>

\* initialize cancelled while it awaits the read of `stage`: what was
\* assigned before stays assigned, the CancelledError passes the except
\* clause and reaches the caller; self.is_initialized = True is not reached
InitializeCancelled(stage, load_fails) ==
    /\ resp = Idle
    /\ stage = "popular" => conf.ENABLE_POPULARITY_BOOST
    /\ sentence_model' = _load_ml_models_sentence_model(sentence_model, load_fails)
    /\ tfidf_vectorizer' = (conf.SKLEARN_AVAILABLE \/ tfidf_vectorizer)
    /\ job_categories_mapping' =
            IF stage = "popular" THEN _load_job_categories_mapping(FALSE)
            ELSE job_categories_mapping
    /\ resp' = [op |-> "initialize", exception |-> CancelledError]
    /\ UNCHANGED <<conf, dbVer, is_initialized, embeddings_cache, popular_jobs,
                   features_used>>

\* retrain_models cancelled while it awaits the read of `stage`: the cache
\* is not cleared
RetrainModelsCancelled(stage) ==
    /\ resp = Idle
    /\ stage = "popular" => conf.ENABLE_POPULARITY_BOOST
    /\ job_categories_mapping' =
            IF stage = "popular" THEN _load_job_categories_mapping(FALSE)
            ELSE job_categories_mapping
    /\ resp' = [op |-> "retrain_models", exception |-> CancelledError]
    /\ UNCHANGED <<conf, dbVer, is_initialized, sentence_model,
                   tfidf_vectorizer, embeddings_cache, popular_jobs,
                   features_used>>

-----------------------------------------------------------------------------
(* Requests *)

\* the keys the embedding path looked up in the cache during a call
LookedUpKeys(calls) ==
    {calls[k].key : k \in {n \in DOMAIN calls : calls[n].backend = "bert"}}

\* the keys whose similarity the cache served during a call
ServedKeys(calls) ==
    {calls[k].key : k \in {n \in DOMAIN calls :
                                calls[n].backend = "bert" /\ calls[n].hit}}

\* a scoring pass taking the head off the popular list it looked the job up in
_apply_post_processing_popular_jobs_popped(popular) ==
    IF popular = <<>> THEN <<>> ELSE Tail(popular)

\* self.popular_jobs after _apply_post_processing: `in` and index() read the
\* list, nothing is assigned to it or called on it that changes it
_apply_post_processing_popular_jobs(popular) == popular

\* self.job_categories_mapping after _calculate_course_match: `in` and [] on
\* a key that is present read the dict (a plain dict, no default factory)
_calculate_course_match_mapping(mapping) == mapping

\* POST /recommendations: main.get_recommendations calls the engine and turns
\* its outcome into the HTTP answer
GetRecommendations(user_id, limit, include_reasons, faults) ==
    /\ resp = Idle
    /\ \E call \in {get_recommendations(Engine, conf, dbVer, user_id, limit,
                        include_reasons, faults)} :
          /\ embeddings_cache' = call.cache
          /\ resp' = [op |-> "get_recommendations",
                      user_id |-> user_id,
                      limit |-> limit,
                      include_reasons |-> include_reasons,
                      faults |-> faults,
                      call |-> call,
                      http |-> RecommendationsEndpoint(call)]
    /\ job_categories_mapping' =
            _calculate_course_match_mapping(job_categories_mapping)
    /\ popular_jobs' = _apply_post_processing_popular_jobs(popular_jobs)
    /\ UNCHANGED <<conf, dbVer, is_initialized, sentence_model,
                   tfidf_vectorizer, features_used>>

\* the answer reaches the caller
Answer ==
    /\ resp # Idle
    /\ resp' = Idle
    /\ UNCHANGED <<conf, dbVer, engineVars>>

\* the portal's other services change the database contents
DbUpdate ==
    /\ resp = Idle
    /\ dbVer' \in DbVersions \ {dbVer}
    /\ UNCHANGED <<conf, engineVars, resp>>

Next ==
    \/ \E load_fails, mapping_fails, popular_fails \in BOOLEAN :
            Initialize(load_fails, mapping_fails, popular_fails)
                /\ UNCHANGED <<cacheHistory, coroutines, last_initialize>>
    \/ \E mapping_fails, popular_fails \in BOOLEAN :
            RetrainModels(mapping_fails, popular_fails)
                /\ UNCHANGED <<cacheHistory, coroutines, last_initialize>>
    \/ /\ resp = Idle
       /\ \E user_id \in UserIds, limit \in Limits, include_reasons \in BOOLEAN,
             faults \in FaultCases :
               GetRecommendations(user_id, limit, include_reasons, faults)
       /\ UNCHANGED <<cacheHistory, coroutines, last_initialize>>
    \/ Answer /\ UNCHANGED <<cacheHistory, coroutines, last_initialize>>
    \/ DbUpdate /\ UNCHANGED <<cacheHistory, coroutines, last_initialize>>

Spec == Init /\ [][Next]_vars

-----------------------------------------------------------------------------
(* The same engine watched for what its similarity cache does.  Requests    *)
(* ask for MaxLimit recommendations without reasons; the deployments are    *)
(* every one of Deployments, the one with the small cache among them.      *)

CacheInit == Init

\* a request's lookups enter the history
ObserveRequest ==
    /\ served' = served \cup ServedKeys(resp'.call.calls)
    /\ cleared' = cleared \ LookedUpKeys(resp'.call.calls)
    /\ first_since_retrain' = cleared \cap LookedUpKeys(resp'.call.calls)

\* a retrain ends the period in which served was collected
ObserveRetrain ==
    /\ served' = {}
    /\ cleared' = cleared \cup served
    /\ first_since_retrain' = {}

CacheNext ==
    \/ \E load_fails, mapping_fails, popular_fails \in BOOLEAN :
            Initialize(load_fails, mapping_fails, popular_fails)
                /\ UNCHANGED <<cacheHistory, coroutines, last_initialize>>
    \/ \E mapping_fails, popular_fails \in BOOLEAN :
            RetrainModels(mapping_fails, popular_fails)
                /\ ObserveRetrain
                /\ UNCHANGED <<coroutines, last_initialize>>
    \/ /\ resp = Idle
       /\ \E user_id \in UserIds, faults \in FaultCases :
               GetRecommendations(user_id, MaxLimit, FALSE, faults)
                   /\ ObserveRequest
       /\ UNCHANGED <<coroutines, last_initialize>>
    \/ Answer /\ UNCHANGED <<cacheHistory, coroutines, last_initialize>>
    \/ DbUpdate /\ UNCHANGED <<cacheHistory, coroutines, last_initialize>>

CacheSpec == CacheInit /\ [][CacheNext]_vars

-----------------------------------------------------------------------------
(* The engine's life: initialize, retrain_models and requests in any order, *)
(* each of them returning or raising.                                       *)

ReadyNext ==
    \/ /\ resp = Idle
       /\ \E load_fails, mapping_fails, popular_fails \in BOOLEAN :
            Initialize(load_fails, mapping_fails, popular_fails)
       /\ UNCHANGED <<cacheHistory, coroutines, last_initialize>>
    \/ /\ resp = Idle
       /\ \E stage \in CancelStages, load_fails \in BOOLEAN :
            InitializeCancelled(stage, load_fails)
       /\ UNCHANGED <<cacheHistory, coroutines, last_initialize>>
    \/ /\ resp = Idle
       /\ \E mapping_fails, popular_fails \in BOOLEAN :
            RetrainModels(mapping_fails, popular_fails)
       /\ UNCHANGED <<cacheHistory, coroutines, last_initialize>>
    \/ /\ resp = Idle
       /\ \E stage \in CancelStages : RetrainModelsCancelled(stage)
       /\ UNCHANGED <<cacheHistory, coroutines, last_initialize>>
    \/ /\ resp = Idle
       /\ \E user_id \in UserIds, faults \in FaultCases :
            GetRecommendations(user_id, MaxLimit, FALSE, faults)
       /\ UNCHANGED <<cacheHistory, coroutines, last_initialize>>
    \/ Answer /\ UNCHANGED <<cacheHistory, coroutines, last_initialize>>
    \/ DbUpdate /\ UNCHANGED <<cacheHistory, coroutines, last_initialize>>

ReadySpec == Init /\ [][ReadyNext]_vars

-----------------------------------------------------------------------------
(* The engine's setup watched: initialize called again and again, with      *)
(* retrains and database changes in between.  last_initialize keeps what    *)
(* the latest call met and the engine it found.                             *)

\* the outcomes a call of initialize meets
LoadOutcomes(load_fails, mapping_fails, popular_fails) ==
    [ver |-> dbVer, load_fails |-> load_fails, mapping_fails |-> mapping_fails,
     popular_fails |-> popular_fails]

\* repeated: the engine was initialized by the call before this one, that
\* call met the same database contents and the same outcomes of its loads,
\* and retrain_models was not called in between
ObserveInitialize(load_fails, mapping_fails, popular_fails) ==
    last_initialize' =
        [repeated |-> /\ is_initialized
                      /\ last_initialize # NoCall
                      /\ last_initialize.met = LoadOutcomes(load_fails,
                                                  mapping_fails, popular_fails),
         met |-> LoadOutcomes(load_fails, mapping_fails, popular_fails),
         before |-> Engine]

InitNext ==
    \/ \E load_fails, mapping_fails, popular_fails \in BOOLEAN :
            /\ Initialize(load_fails, mapping_fails, popular_fails)
            /\ ObserveInitialize(load_fails, mapping_fails, popular_fails)
            /\ UNCHANGED <<cacheHistory, coroutines>>
    \/ \E mapping_fails, popular_fails \in BOOLEAN :
            /\ RetrainModels(mapping_fails, popular_fails)
            /\ last_initialize' = NoCall
            /\ UNCHANGED <<cacheHistory, coroutines>>
    \/ Answer /\ UNCHANGED <<cacheHistory, coroutines, last_initialize>>
    \/ DbUpdate /\ UNCHANGED <<cacheHistory, coroutines, last_initialize>>

InitSpec == Init /\ [][InitNext]_vars

-----------------------------------------------------------------------------
(* The engine under asyncio: requests and one retrain_models as coroutines  *)
(* of one event loop.  A coroutine gives the loop up only where it awaits   *)
(* the database; running is the coroutine that holds the loop between two   *)
(* steps of its scoring loop.  Requests ask for MaxLimit recommendations    *)
(* without reasons and meet no fault; each slot of tasks serves one.        *)

\* the scoring loop giving the loop up after every job
_calculate_knowledge_score_yields(eng) == TRUE

\* whether await self._calculate_knowledge_score(...) suspends the caller: it
\* awaits at most _calculate_semantic_similarity_bert, which awaits nothing
_calculate_knowledge_score_suspends(eng) == FALSE

\* POST /recommendations arrives: is_ready() holds, db.get_user_profile is
\* awaited
StartRequest(t, user_id) ==
    /\ is_initialized /\ resp = Idle /\ running = 0
    /\ tasks[t].pc = "idle"
    /\ tasks' = [tasks EXCEPT ![t] = [pc |-> "profile", user_id |-> user_id]]
    /\ UNCHANGED <<conf, dbVer, engineVars, resp, cacheHistory,
                   last_initialize, retrain, running>>

\* _build_user_profile returns; db.get_active_jobs is awaited
ProfileRead(t) ==
    /\ running = 0
    /\ tasks[t].pc = "profile"
    /\ \E user_profile \in {_build_user_profile(tasks[t].user_id, FALSE, FALSE)} :
          tasks' = [tasks EXCEPT ![t] =
                      IF user_profile.tag = "None"
                      THEN [pc |-> "done", user_id |-> tasks[t].user_id,
                            exception |-> [type |-> "ValueError", msg |-> NO_PROFILE],
                            result |-> <<>>, mapping_used |-> <<>>]
                      ELSE [pc |-> "jobs", user_id |-> tasks[t].user_id,
                            user_profile |-> user_profile]]
    /\ UNCHANGED <<conf, dbVer, engineVars, resp, cacheHistory,
                   last_initialize, retrain, running>>

\* get_active_jobs returns; the job profiles are built and the scoring loop
\* is entered
JobsRead(t) ==
    /\ running = 0
    /\ tasks[t].pc = "jobs"
    /\ \E jobs \in {get_active_jobs(dbVer, MAX_RECOMMENDATIONS, FALSE)} :
          IF jobs = <<>>
          THEN /\ tasks' = [tasks EXCEPT ![t] =
                              [pc |-> "done", user_id |-> tasks[t].user_id,
                               exception |-> NoException,
                               result |-> <<>>, mapping_used |-> <<>>]]
               /\ running' = 0
          ELSE /\ tasks' = [tasks EXCEPT ![t] =
                              [pc |-> "scoring", user_id |-> tasks[t].user_id,
                               user_profile |-> tasks[t].user_profile,
                               job_profiles |->
                                   [i \in DOMAIN jobs |-> _build_job_profile(jobs[i])],
                               recommendations |-> <<>>,
                               mapping_used |-> <<>>]]
               /\ running' = t
    /\ UNCHANGED <<conf, dbVer, engineVars, resp, cacheHistory,
                   last_initialize, retrain>>

\* one turn of the loop of _calculate_hybrid_recommendations: the next job is
\* scored against the mapping the engine holds now
ScoreJob(t) ==
    /\ running \in {0, t}
    /\ tasks[t].pc = "scoring"
    /\ Len(tasks[t].mapping_used) < Len(tasks[t].job_profiles)
    /\ \E one \in {ScoreOneJob(tasks[t].user_profile,
                        tasks[t].job_profiles[Len(tasks[t].mapping_used) + 1],
                        FALSE, Engine, embeddings_cache, conf, FALSE)} :
          /\ embeddings_cache' = one.cache
          /\ tasks' = [tasks EXCEPT
                          ![t].recommendations =
                              IF one.keep THEN Append(@, one.rec) ELSE @,
                          ![t].mapping_used = Append(@, job_categories_mapping)]
    /\ running' = IF _calculate_knowledge_score_suspends(Engine) THEN 0 ELSE t
    /\ UNCHANGED <<conf, dbVer, is_initialized, sentence_model, tfidf_vectorizer,
                   job_categories_mapping, popular_jobs, features_used, resp,
                   cacheHistory, last_initialize, retrain>>

\* the loop is over: post-processing, sort and slice; the log write is
\* awaited when there is something to log
FinishScoring(t) ==
    /\ running \in {0, t}
    /\ tasks[t].pc = "scoring"
    /\ Len(tasks[t].mapping_used) = Len(tasks[t].job_profiles)
    /\ \E final \in {SliceTo(SortByHybridScore(_apply_post_processing(
                            tasks[t].recommendations, Engine, conf)), MaxLimit)} :
          tasks' = [tasks EXCEPT ![t] =
                      [pc |-> IF final # <<>> THEN "log" ELSE "done",
                       user_id |-> tasks[t].user_id,
                       exception |-> NoException,
                       result |-> final,
                       mapping_used |-> tasks[t].mapping_used,
                       popular_used |-> popular_jobs]]
    /\ running' = 0
    /\ UNCHANGED <<conf, dbVer, engineVars, resp, cacheHistory,
                   last_initialize, retrain>>

\* log_recommendation_request returns and the list is returned
LogWritten(t) ==
    /\ running = 0
    /\ tasks[t].pc = "log"
    /\ tasks' = [tasks EXCEPT ![t].pc = "done"]
    /\ UNCHANGED <<conf, dbVer, engineVars, resp, cacheHistory,
                   last_initialize, retrain, running>>

\* POST /retrain arrives: db.get_job_categories_mapping is awaited
StartRetrain ==
    /\ is_initialized /\ resp = Idle /\ running = 0
    /\ retrain.pc = "idle"
    /\ retrain' = [pc |-> "mapping",
                   pre_mapping |-> job_categories_mapping,
                   pre_popular |-> popular_jobs]
    /\ UNCHANGED <<conf, dbVer, engineVars, resp, cacheHistory,
                   last_initialize, tasks, running>>

\* the mapping read returns and is assigned; with the popularity boost on,
\* db.get_popular_jobs is awaited, otherwise retrain_models runs to its end
MappingLoaded(mapping_fails) ==
    /\ running = 0
    /\ retrain.pc = "mapping"
    /\ job_categories_mapping' = _load_job_categories_mapping(mapping_fails)
    /\ retrain' = [retrain EXCEPT
                      !.pc = IF conf.ENABLE_POPULARITY_BOOST THEN "popular"
                             ELSE "done"]
    /\ embeddings_cache' = IF conf.ENABLE_POPULARITY_BOOST THEN embeddings_cache
                           ELSE embeddings_cache_clear(embeddings_cache)
    /\ UNCHANGED <<conf, dbVer, is_initialized, sentence_model, tfidf_vectorizer,
                   popular_jobs, features_used, resp, cacheHistory,
                   last_initialize, tasks,
                   running>>

\* the popular-jobs read returns and is assigned; the cache is cleared
PopularLoaded(popular_fails) ==
    /\ running = 0
    /\ retrain.pc = "popular"
    /\ popular_jobs' = _load_popular_jobs(popular_jobs, popular_fails)
    /\ embeddings_cache' = embeddings_cache_clear(embeddings_cache)
    /\ retrain' = [retrain EXCEPT !.pc = "done"]
    /\ UNCHANGED <<conf, dbVer, is_initialized, sentence_model, tfidf_vectorizer,
                   job_categories_mapping, features_used, resp, cacheHistory,
                   last_initialize, tasks, running>>

\* the deployments run under asyncio here: with and without the embedding
\* model
ConcDeployments ==
    {d \in Deployments :
        /\ d.ENVIRONMENT = "development"
        /\ d.SKLEARN_AVAILABLE
        /\ d.ENABLE_POPULARITY_BOOST /\ d.ENABLE_DIVERSITY_BOOST
        /\ d.NLP_CACHE_SIZE = NLP_CACHE_SIZE}

ConcInit == Init /\ conf \in ConcDeployments

\* the lifespan of main.py calls initialize once, before any request is
\* served; here every load of it succeeds
ConcNext ==
    \/ /\ ~is_initialized
       /\ Initialize(FALSE, FALSE, FALSE)
       /\ UNCHANGED <<cacheHistory, coroutines, last_initialize>>
    \/ Answer /\ UNCHANGED <<cacheHistory, coroutines, last_initialize>>
    \/ DbUpdate /\ UNCHANGED <<cacheHistory, coroutines, last_initialize>>
    \/ \E t \in TaskIds, user_id \in UserIds : StartRequest(t, user_id)
    \/ \E t \in TaskIds : ProfileRead(t)
    \/ \E t \in TaskIds : JobsRead(t)
    \/ \E t \in TaskIds : ScoreJob(t)
    \/ \E t \in TaskIds : FinishScoring(t)
    \/ \E t \in TaskIds : LogWritten(t)
    \/ StartRetrain
    \/ \E mapping_fails \in BOOLEAN : MappingLoaded(mapping_fails)
    \/ \E popular_fails \in BOOLEAN : PopularLoaded(popular_fails)

ConcSpec == ConcInit /\ [][ConcNext]_vars

-----------------------------------------------------------------------------
(* Properties of POST /recommendations.  resp holds the request just made,  *)
(* what the engine did for it (resp.call) and the HTTP answer (resp.http).  *)

Requested == resp.op = "get_recommendations"

\* the data-access collaborator has no profile record to return for the user
NoProfileRecord(user_id, faults) ==
    faults.profile \/ user_id \notin DOMAIN UserProfileRows

\* the collaborator has no completed resume to return for the user
NoCompletedResume(user_id, faults) ==
    \/ faults.resume
    \/ user_id \notin DOMAIN ResumeRows
    \/ ResumeRows[user_id].status # "completed"

\* the active-jobs read yields nothing: no job is open, or the read failed
NoJobsRead(faults) == faults.jobs \/ DbSnapshots[dbVer].open = {}

\* the job ids of a list of recommendations
JobIdsOf(recs) == {recs[i].job_id : i \in DOMAIN recs}

\* C1: a request made while is_ready() is false fails with the
\* not-initialized error and returns no list, whatever user_id, limit and
\* include_reasons are.
C1_NotReadyFails ==
    Requested /\ ~is_initialized =>
        /\ resp.call.exception = [type |-> "ValueError", msg |-> NOT_INITIALIZED]
        /\ resp.call.result = <<>>
        /\ ~resp.http.success

\* a request for a known user reaches an engine that was never initialized
C1_Witness ==
    /\ Requested
    /\ ~is_initialized
    /\ resp.user_id \in DOMAIN UserProfileRows
    /\ resp.call.exception.msg = NOT_INITIALIZED

\* C2: on a ready engine, a request for a user the collaborator returns no
\* profile record for fails with the no-profile error: no list, no job
\* scored, no similarity backend consulted, no log entry written.
C2_NoProfileFails ==
    Requested /\ is_initialized /\ NoProfileRecord(resp.user_id, resp.faults) =>
        /\ resp.call.exception = [type |-> "ValueError", msg |-> NO_PROFILE]
        /\ resp.call.result = <<>>
        /\ resp.call.scored = <<>>
        /\ resp.call.calls = <<>>
        /\ ~resp.call.log_called
        /\ resp.call.logged = <<>>

\* a ready engine with open jobs is asked about a user who has no profile row
C2_Witness ==
    /\ Requested
    /\ is_initialized
    /\ resp.user_id \notin DOMAIN UserProfileRows
    /\ resp.faults = NoFaults
    /\ DbSnapshots[dbVer].open # {}
    /\ resp.call.exception.msg = NO_PROFILE

\* C3 (as claimed): the not-ready failure reaches the client in a category
\* of its own, a server-side one, distinct from the validation category the
\* unknown-user failure gets; every other failure is the generic internal
\* error.
C3_DistinctErrorCategories ==
    Requested =>
        /\ resp.call.exception.msg = NO_PROFILE =>
                resp.http.status_code \in 400..499
        /\ resp.call.exception.msg = NOT_INITIALIZED =>
                /\ resp.http.status_code \in 500..599
                /\ resp.http.status_code #
                       RecommendationsEndpoint(
                           [exception |-> [type |-> "ValueError",
                                           msg |-> NO_PROFILE]]).status_code
        /\ resp.call.exception.type \notin {"none", "ValueError"} =>
                /\ resp.http.status_code = HTTP_INTERNAL_ERROR
                /\ resp.http.detail = INTERNAL_SERVER_ERROR

\* C4: every recommendation returned has a pre-boost hybrid score (the
\* weighted combination of its content and knowledge scores) of at least the
\* configured minimum, and no job scored below the minimum is returned.
C4_ReturnedPassedThreshold ==
    Requested =>
        /\ \A i \in DOMAIN resp.call.result :
                HybridScore(resp.call.result[i].content_score,
                            resp.call.result[i].knowledge_score)
                    >= conf.MIN_RECOMMENDATION_SCORE
        /\ \A k \in DOMAIN resp.call.scored :
                resp.call.scored[k].hybrid_score < conf.MIN_RECOMMENDATION_SCORE
                    => resp.call.scored[k].job_id \notin JobIdsOf(resp.call.result)

\* a list is returned while a job scored below the minimum is left out,
\* which its popularity boost and the diversity bonus would have lifted to
\* the minimum
C4_Witness ==
    /\ Requested
    /\ resp.call.result # <<>>
    /\ conf.ENABLE_POPULARITY_BOOST
    /\ conf.ENABLE_DIVERSITY_BOOST
    /\ \E k \in DOMAIN resp.call.scored :
            /\ ~resp.call.scored[k].raised
            /\ resp.call.scored[k].hybrid_score < conf.MIN_RECOMMENDATION_SCORE
            /\ resp.call.scored[k].job_id \in RangeOf(popular_jobs)
            /\ resp.call.scored[k].hybrid_score
                    + PopularityBoost(popular_jobs, resp.call.scored[k].job_id)
                    + Pct(DIVERSITY_BOOST)
                    >= conf.MIN_RECOMMENDATION_SCORE
            /\ resp.call.scored[k].job_id \notin JobIdsOf(resp.call.result)

\* C5: the returned list is in non-increasing order of final hybrid score,
\* and recommendations with equal final scores are in the order in which the
\* active-jobs read returned their jobs.
C5_SortedStable ==
    Requested =>
        \A i, j \in DOMAIN resp.call.result :
            i < j =>
                \/ resp.call.result[i].hybrid_score > resp.call.result[j].hybrid_score
                \/ /\ resp.call.result[i].hybrid_score = resp.call.result[j].hybrid_score
                   /\ IndexOf(resp.call.jobs, resp.call.result[i].job_id)
                        < IndexOf(resp.call.jobs, resp.call.result[j].job_id)

\* two returned recommendations tie on the final score
C5_Witness ==
    /\ Requested
    /\ \E i, j \in DOMAIN resp.call.result :
            /\ i < j
            /\ resp.call.result[i].hybrid_score = resp.call.result[j].hybrid_score

\* C6: for limit >= 0 the list returned has min(limit, number of candidates
\* that passed the filter) entries, and they are the first entries of the
\* candidates sorted by final score: nothing left out outranks anything
\* returned.
C6_TruncatedToLimit ==
    Requested /\ resp.limit >= 0 =>
        /\ Len(resp.call.result) = Min(resp.limit, Len(resp.call.candidates))
        /\ Len(resp.call.ranked) = Len(resp.call.candidates)
        /\ JobIdsOf(resp.call.ranked) = JobIdsOf(resp.call.candidates)
        /\ \A i \in DOMAIN resp.call.result :
                resp.call.result[i] = resp.call.ranked[i]
        /\ \A i \in DOMAIN resp.call.result :
            \A j \in (Len(resp.call.result) + 1)..Len(resp.call.ranked) :
                resp.call.ranked[j].hybrid_score <= resp.call.result[i].hybrid_score

\* more candidates passed the filter than the positive limit asked for
C6_Witness ==
    /\ Requested
    /\ resp.limit >= 1
    /\ Len(resp.call.candidates) > resp.limit
    /\ Len(resp.call.result) = resp.limit

\* C7: when the write of the log entry fails, the call raises what it would
\* have raised and returns what it would have returned had the write
\* succeeded; a call that got as far as the write raises nothing.
C7_LogFailureInvisible ==
    Requested /\ resp.faults.log =>
        /\ \E ok \in {get_recommendations(Engine, conf, dbVer, resp.user_id,
                        resp.limit, resp.include_reasons,
                        [resp.faults EXCEPT !.log = FALSE])} :
                /\ resp.call.exception = ok.exception
                /\ resp.call.result = ok.result
        /\ resp.call.log_called =>
                /\ resp.call.exception = NoException
                /\ resp.call.result # <<>>
                /\ resp.http.status_code = HTTP_OK

\* the write was attempted for a list of two and failed
C7_Witness ==
    /\ Requested
    /\ resp.faults.log
    /\ resp.call.log_called
    /\ resp.call.logged = <<>>
    /\ Len(resp.call.result) = 2

C9_NoJobsEmptyList ==
    Requested /\ is_initialized /\ ~NoProfileRecord(resp.user_id, resp.faults)
        /\ NoJobsRead(resp.faults) =>
        /\ resp.call.exception = NoException
        /\ resp.call.result = <<>>
        /\ resp.call.scored = <<>>
        /\ ~resp.call.log_called
        /\ resp.call.logged = <<>>
        /\ resp.http.status_code = HTTP_OK

\* a known user asks a ready engine while no job is open
C9_Witness ==
    /\ Requested
    /\ is_initialized
    /\ resp.user_id \in DOMAIN UserProfileRows
    /\ resp.faults = NoFaults
    /\ DbSnapshots[dbVer].open = {}
    /\ resp.call.result = <<>>

\* C10: for a user without a completed resume every job scored gets the
\* knowledge score 0 with the one fixed reason, and neither a similarity
\* backend nor the similarity cache is consulted.
C10_NoResumeGate ==
    Requested /\ NoCompletedResume(resp.user_id, resp.faults) =>
        /\ \A k \in DOMAIN resp.call.scored :
                /\ resp.call.scored[k].knowledge_score = 0
                /\ resp.call.scored[k].knowledge_reasons
                        = <<Reason(COMPLETE_RESUME, <<>>)>>
        /\ \A i \in DOMAIN resp.call.result :
                resp.call.result[i].knowledge_score = 0
        /\ resp.call.calls = <<>>

\* the jobs are scored for a user whose only resume is a draft, on an engine
\* that has the embedding model loaded
C10_Witness ==
    /\ Requested
    /\ resp.user_id \in DOMAIN ResumeRows
    /\ ResumeRows[resp.user_id].status # "completed"
    /\ sentence_model
    /\ Len(resp.call.scored) >= 2

-----------------------------------------------------------------------------
(* Properties of the reasons, the cache, initialize and retrain_models *)

\* C11 (as claimed): a request made with include_reasons = false gets a list
\* in which every recommendation has an empty reasons list, the ones that
\* received a popularity boost included.
C11_NoReasonsUnlessRequested ==
    Requested /\ ~resp.include_reasons =>
        \A i \in DOMAIN resp.call.result :
            resp.call.result[i].reasons = <<>>

\* C12: a pair whose similarity the cache served before retrain_models is a
\* cache miss, recomputed by the embedding backend, on its first lookup after
\* retrain_models has completed.
C12_RetrainClearsCache ==
    Requested =>
        \A k \in DOMAIN resp.call.calls :
            /\ resp.call.calls[k].backend = "bert"
            /\ resp.call.calls[k].key \in first_since_retrain
            /\ \A m \in 1..(k - 1) :
                    resp.call.calls[m].key # resp.call.calls[k].key
            => ~resp.call.calls[k].hit

\* a pair the cache had served before the retrain is looked up again, missed
\* and inserted anew
C12_Witness ==
    /\ Requested
    /\ \E k \in DOMAIN resp.call.calls :
            /\ resp.call.calls[k].backend = "bert"
            /\ resp.call.calls[k].key \in first_since_retrain
            /\ ~resp.call.calls[k].hit
            /\ resp.call.calls[k].key \in DOMAIN embeddings_cache

\* C13: the cache never holds more entries than NLP_CACHE_SIZE; except by a
\* retrain, an entry once inserted is neither removed nor given another
\* value; and an entry is inserted only by a miss of the embedding path,
\* never by the tf-idf or the word-overlap path.
C13_CacheCapNoEviction ==
    /\ [](Cardinality(DOMAIN embeddings_cache) <= conf.NLP_CACHE_SIZE)
    /\ [][resp'.op # "retrain_models" =>
            \A key \in DOMAIN embeddings_cache :
                /\ key \in DOMAIN embeddings_cache'
                /\ embeddings_cache'[key] = embeddings_cache[key]]_vars
    /\ [][\A key \in DOMAIN embeddings_cache' \ DOMAIN embeddings_cache :
            /\ resp'.op = "get_recommendations"
            /\ sentence_model
            /\ \E k \in DOMAIN resp'.call.calls :
                    /\ resp'.call.calls[k].backend = "bert"
                    /\ resp'.call.calls[k].key = key
                    /\ ~resp'.call.calls[k].hit]_vars

\* a request fills the cache to its capacity and a later miss of the same
\* request is returned without being inserted
C13_Witness ==
    /\ Requested
    /\ Cardinality(DOMAIN embeddings_cache) = conf.NLP_CACHE_SIZE
    /\ \E k \in DOMAIN resp.call.calls :
            /\ resp.call.calls[k].backend = "bert"
            /\ ~resp.call.calls[k].hit
            /\ resp.call.calls[k].key \notin DOMAIN embeddings_cache

-----------------------------------------------------------------------------
(* Properties of requests in flight while retrain_models runs (ConcSpec) *)

\* the mappings a request may have scored against: the one the engine held
\* when retrain_models was called and, once assigned, the one it loaded
RetrainMappings ==
    IF retrain.pc = "idle" THEN {job_categories_mapping}
    ELSE IF retrain.pc = "mapping" THEN {retrain.pre_mapping}
    ELSE {retrain.pre_mapping, job_categories_mapping}

\* the popular-jobs lists a request may have boosted against
RetrainPopularLists ==
    IF retrain.pc = "idle" THEN {popular_jobs}
    ELSE IF retrain.pc = "done" THEN {retrain.pre_popular, popular_jobs}
    ELSE {retrain.pre_popular}

\* C14: however one retrain_models interleaves with the requests in flight,
\* a request for a user with a profile completes without error, all its jobs
\* are scored against one mapping, the pre-retrain or the post-retrain one,
\* and its candidates are boosted against the pre-retrain or the
\* post-retrain popular-jobs list.
C14_RetrainRaceWholeValues ==
    \A t \in TaskIds :
        /\ tasks[t].pc = "done" /\ tasks[t].user_id \in DOMAIN UserProfileRows
                => tasks[t].exception = NoException
        /\ tasks[t].pc \in {"scoring", "log", "done"} =>
              \A k \in DOMAIN tasks[t].mapping_used :
                  /\ tasks[t].mapping_used[k] = tasks[t].mapping_used[1]
                  /\ tasks[t].mapping_used[k] \in RetrainMappings
        /\ tasks[t].pc \in {"log", "done"} /\ tasks[t].mapping_used # <<>>
                => tasks[t].popular_used \in RetrainPopularLists

\* between the two loads of a retrain that changes both values, one request
\* has scored its jobs against the new mapping and boosted them against the
\* old list, while another scored against the old mapping before the retrain
\* assigned the new one
C14_Witness ==
    /\ retrain.pc = "popular"
    /\ retrain.pre_mapping # job_categories_mapping
    /\ \E t, u \in TaskIds :
          /\ tasks[t].pc = "done"
          /\ Len(tasks[t].mapping_used) >= 2
          /\ tasks[t].mapping_used[1] = job_categories_mapping
          /\ tasks[t].popular_used = retrain.pre_popular
          /\ tasks[t].result # <<>>
          /\ tasks[u].pc = "done"
          /\ Len(tasks[u].mapping_used) >= 2
          /\ tasks[u].mapping_used[1] = retrain.pre_mapping

-----------------------------------------------------------------------------
(* Properties of initialize (InitSpec) *)

-----------------------------------------------------------------------------
(* Properties of the scores (Spec) *)

\* C16: every candidate that passed the filter carries, before any boost, the
\* hybrid score CONTENT_WEIGHT * content_score + KNOWLEDGE_WEIGHT *
\* knowledge_score of the content and knowledge scores it carries itself.
C16_HybridIsWeightedSum ==
    Requested =>
        \A i \in DOMAIN resp.call.candidates :
            resp.call.candidates[i].hybrid_score * 100
                    - (CONTENT_WEIGHT * resp.call.candidates[i].content_score
                       + KNOWLEDGE_WEIGHT * resp.call.candidates[i].knowledge_score)
                \in (0 - 99)..0

\* a candidate with two different positive scores passed the filter and was
\* boosted afterwards
C16_Witness ==
    /\ Requested
    /\ \E i \in DOMAIN resp.call.candidates, j \in DOMAIN resp.call.ranked :
            /\ resp.call.candidates[i].content_score > 0
            /\ resp.call.candidates[i].knowledge_score > 0
            /\ resp.call.candidates[i].content_score
                    # resp.call.candidates[i].knowledge_score
            /\ resp.call.ranked[j].job_id = resp.call.candidates[i].job_id
            /\ resp.call.ranked[j].hybrid_score
                    > resp.call.candidates[i].hybrid_score

\* C17 (as claimed): whichever similarity backend is used, every job scored
\* gets a content score, a knowledge score and a pre-boost hybrid score in
\* [0, 1]; the similarity of the embedding path is clamped to [0, 1]
\* whatever cosine the embedding model produces.
C17_ScoresInUnitInterval ==
    Requested =>
        \A k \in DOMAIN resp.call.scored :
            /\ resp.call.scored[k].content_score \in 0..Scale
            /\ resp.call.scored[k].knowledge_score \in 0..Scale
            /\ resp.call.scored[k].hybrid_score \in 0..Scale

\* the candidate, as it left the filter, of the job of a post-processed
\* recommendation
CandidateOf(rec) ==
    resp.call.candidates[CHOOSE i \in DOMAIN resp.call.candidates :
                            resp.call.candidates[i].job_id = rec.job_id]

\* C18: after post-processing every recommendation has a hybrid score of at
\* most 1.0 and of at least its own pre-boost hybrid score: the popularity
\* and diversity boosts only add, and the sum is clamped at 1.0.
C18_BoostsAddAndClamp ==
    Requested =>
        \A j \in DOMAIN resp.call.ranked :
            /\ resp.call.ranked[j].hybrid_score <= Scale
            /\ resp.call.ranked[j].hybrid_score
                    >= CandidateOf(resp.call.ranked[j]).hybrid_score
            /\ resp.call.ranked[j].hybrid_score
                    <= CandidateOf(resp.call.ranked[j]).hybrid_score
                        + Scale \div 10 + Pct(DIVERSITY_BOOST)

\* a recommendation whose pre-boost score plus its popularity and diversity
\* boosts exceeds 1.0 is returned with exactly 1.0
C18_Witness ==
    /\ Requested
    /\ conf.ENABLE_POPULARITY_BOOST /\ conf.ENABLE_DIVERSITY_BOOST
    /\ \E j \in DOMAIN resp.call.result :
            /\ resp.call.result[j].hybrid_score = Scale
            /\ resp.call.result[j].job_id \in RangeOf(popular_jobs)
            /\ CandidateOf(resp.call.result[j]).hybrid_score < Scale
            /\ CandidateOf(resp.call.result[j]).hybrid_score
                    + PopularityBoost(popular_jobs, resp.call.result[j].job_id)
                    + Pct(DIVERSITY_BOOST) > Scale

\* a recommendation with its hybrid score and its reasons left out
Unboosted(rec) ==
    [rec EXCEPT !.hybrid_score = 0, !.reasons = <<>>]

\* C19: post-processing returns the candidates that passed the filter, in
\* their order, none added and none removed, each differing from what it was
\* in hybrid_score and reasons at most; a job the filter excluded is never
\* returned.
C19_PostProcessingKeepsCandidates ==
    Requested =>
        /\ \E processed \in {_apply_post_processing(resp.call.candidates,
                                Engine, conf)} :
              /\ Len(processed) = Len(resp.call.candidates)
              /\ \A i \in DOMAIN processed :
                    Unboosted(processed[i]) = Unboosted(resp.call.candidates[i])
              /\ resp.call.ranked = SortByHybridScore(processed)
        /\ Len(resp.call.ranked) = Len(resp.call.candidates)
        /\ \A j \in DOMAIN resp.call.ranked :
              /\ resp.call.ranked[j].job_id \in JobIdsOf(resp.call.candidates)
              /\ Unboosted(resp.call.ranked[j])
                    = Unboosted(CandidateOf(resp.call.ranked[j]))
        /\ \A k \in DOMAIN resp.call.scored :
              ~resp.call.scored[k].retained =>
                  resp.call.scored[k].job_id \notin JobIdsOf(resp.call.ranked)

\* the boosts changed the score and the reasons of one of several
\* candidates, while a popular job the filter excluded stayed out
C19_Witness ==
    /\ Requested
    /\ Len(resp.call.candidates) >= 2
    /\ \E j \in DOMAIN resp.call.ranked :
            /\ resp.call.ranked[j].reasons # CandidateOf(resp.call.ranked[j]).reasons
            /\ resp.call.ranked[j].hybrid_score
                    # CandidateOf(resp.call.ranked[j]).hybrid_score
    /\ \E k \in DOMAIN resp.call.scored :
            /\ ~resp.call.scored[k].raised
            /\ ~resp.call.scored[k].retained
            /\ resp.call.scored[k].job_id \in RangeOf(popular_jobs)

\* what post-processing added to the hybrid score of a recommendation
Added(rec) == rec.hybrid_score - CandidateOf(rec).hybrid_score

\* C20: with the popularity boost enabled and a non-empty popular-jobs list,
\* a recommendation is boosted by 0.1 * (1 - i / len(list)) for its job's
\* index i in the list and by exactly 0 when its job is not in the list, so
\* the boost does not increase with i.
C20_PopularityBoostByIndex ==
    Requested /\ conf.ENABLE_POPULARITY_BOOST /\ popular_jobs # <<>> =>
        /\ \A j \in DOMAIN resp.call.ranked :
              \E boost \in {IF resp.call.ranked[j].job_id \in RangeOf(popular_jobs)
                            THEN (100000 * (Len(popular_jobs)
                                    - IndexOf(popular_jobs, resp.call.ranked[j].job_id)))
                                        \div Len(popular_jobs)
                            ELSE 0} :
                \E boosted \in {Min(Scale,
                        CandidateOf(resp.call.ranked[j]).hybrid_score + boost)} :
                    /\ resp.call.ranked[j].hybrid_score
                          \in {boosted, Min(Scale, boosted + Pct(DIVERSITY_BOOST))}
                    /\ ~conf.ENABLE_DIVERSITY_BOOST =>
                          resp.call.ranked[j].hybrid_score = boosted
        /\ \A p, q \in DOMAIN popular_jobs :
              p < q => PopularityBoost(popular_jobs, popular_jobs[p])
                          >= PopularityBoost(popular_jobs, popular_jobs[q])

\* of three recommendations one is of a job not in the popular-jobs list and
\* keeps its score, and of the other two the one earlier in the list gained
\* more
C20_Witness ==
    /\ Requested
    /\ conf.ENABLE_POPULARITY_BOOST
    /\ \E a, b, c \in DOMAIN resp.call.ranked :
          /\ resp.call.ranked[a].job_id \in RangeOf(popular_jobs)
          /\ resp.call.ranked[b].job_id \in RangeOf(popular_jobs)
          /\ IndexOf(popular_jobs, resp.call.ranked[a].job_id)
                < IndexOf(popular_jobs, resp.call.ranked[b].job_id)
          /\ Added(resp.call.ranked[a]) > Added(resp.call.ranked[b])
          /\ Added(resp.call.ranked[b]) > 0
          /\ resp.call.ranked[c].job_id \notin RangeOf(popular_jobs)
          /\ Added(resp.call.ranked[c]) = 0

-----------------------------------------------------------------------------
(* Properties of the diversity bonus (CacheSpec) *)

\* the hybrid score of a recommendation once the popularity boost is applied
\* to its candidate and before the diversity bonus
PopularityBoosted(rec) ==
    IF conf.ENABLE_POPULARITY_BOOST /\ popular_jobs # <<>>
    THEN ApplyPopularityBoost(CandidateOf(rec), popular_jobs).hybrid_score
    ELSE CandidateOf(rec).hybrid_score

\* C21: with the diversity boost enabled, a recommendation of the batch
\* handed to post-processing (the candidates that passed the filter, before
\* the sort and the truncation) gets the 0.05 bonus, clamped at 1.0, when no
\* other recommendation of the batch has its job_category, and no bonus when
\* another one has.
C21_DiversityBoostIffUniqueCategory ==
    Requested /\ conf.ENABLE_DIVERSITY_BOOST =>
        \A j \in DOMAIN resp.call.ranked :
            \E before \in {PopularityBoosted(resp.call.ranked[j])} :
                IF \E k \in DOMAIN resp.call.ranked \ {j} :
                        resp.call.ranked[k].job_category
                            = resp.call.ranked[j].job_category
                THEN resp.call.ranked[j].hybrid_score = before
                ELSE resp.call.ranked[j].hybrid_score
                        = Min(Scale, before + Pct(DIVERSITY_BOOST))

\* of three recommendations of one batch two share a category and go
\* without the bonus while the third, alone in its category, has it; and the
\* truncation took away the second, so that the first stands alone in its
\* category in the list returned and still has no bonus
C21_Witness ==
    /\ Requested
    /\ conf.ENABLE_DIVERSITY_BOOST
    /\ \E a, b, c \in DOMAIN resp.call.ranked :
          /\ a # b
          /\ resp.call.ranked[a].job_category = resp.call.ranked[b].job_category
          /\ resp.call.ranked[a].hybrid_score
                = PopularityBoosted(resp.call.ranked[a])
          /\ \A k \in DOMAIN resp.call.ranked \ {c} :
                resp.call.ranked[k].job_category # resp.call.ranked[c].job_category
          /\ resp.call.ranked[c].hybrid_score
                = PopularityBoosted(resp.call.ranked[c]) + Pct(DIVERSITY_BOOST)
          /\ a \in DOMAIN resp.call.result
          /\ b \notin DOMAIN resp.call.result
          /\ \A k \in DOMAIN resp.call.result \ {a} :
                resp.call.result[k].job_category # resp.call.ranked[a].job_category

-----------------------------------------------------------------------------
(* The scorer's functions called on their own, on arguments of their types  *)
(* that the catalogue above does not produce.  resp holds the call and      *)
(* what it returned; the engine is left as it is.                           *)

\* the deployments the functions are called under
UnitDeployments ==
    {DevelopmentConfig, TestingConfig,
     [DevelopmentConfig EXCEPT !.ENABLE_DIVERSITY_BOOST = FALSE]}

UnitInit == Init /\ conf \in UnitDeployments /\ dbVer = 1

\* a popular-jobs list of ten jobs, as get_popular_jobs returns it for a
\* catalogue of ten open jobs
TenPopularJobs == <<1, 2, 3, 4, 5, 6, 7, 8, 9, 10>>

\* hybrid scores: every hundredth of [0, 1].  CONTENT_WEIGHT, KNOWLEDGE_WEIGHT
\* and the sub-weights come from the environment, so that a hybrid score may
\* take any value up to 1.0; with the default weights it is at most 0.936
HybridScores == {Pct(p) : p \in 0..100}

JobCategories == {CAT_IT, CAT_HR}

\* a RecommendationScore as the loop of _calculate_hybrid_recommendations
\* appends it, reasons not asked for
Candidate(job_id, hybrid_score, job_category) ==
    [job_id |-> job_id,
     content_score |-> hybrid_score,
     knowledge_score |-> hybrid_score,
     hybrid_score |-> hybrid_score,
     confidence |-> Scale,
     reasons |-> <<>>,
     job_title |-> <<>>,
     job_category |-> job_category,
     company_name |-> UNKNOWN]

\* the rest of a batch: nothing (job 0), or one more candidate, in the
\* popular-jobs list (job 2) or not (job 12)
OtherCandidate(job_id, hybrid_score, job_category) ==
    IF job_id = 0 THEN <<>>
    ELSE <<Candidate(job_id, hybrid_score, job_category)>>

\* a batch for the popular-jobs list above: job 1, first of the list, and
\* job 11, not in it, with the same hybrid score, in either order, and the
\* rest
TiedBatch(hybrid_score, c1, c2, popular_first, third, third_score, c3) ==
    (IF popular_first
     THEN <<Candidate(1, hybrid_score, c1), Candidate(11, hybrid_score, c2)>>
     ELSE <<Candidate(11, hybrid_score, c2), Candidate(1, hybrid_score, c1)>>)
        \o OtherCandidate(third, third_score, c3)

\* _apply_post_processing and the sort of get_recommendations, on an engine
\* that holds the ten popular jobs and for a batch that passed the filter
PostProcess(hybrid_score, c1, c2, popular_first, third, third_score, c3) ==
    /\ resp = Idle
    /\ conf.ENABLE_POPULARITY_BOOST
    /\ \E recommendations \in {TiedBatch(hybrid_score, c1, c2, popular_first,
                                    third, third_score, c3)} :
          /\ \A i \in DOMAIN recommendations :
                Retained(recommendations[i].hybrid_score, conf)
          /\ resp' = [op |-> "_apply_post_processing",
                      recommendations |-> recommendations,
                      popular_jobs |-> TenPopularJobs,
                      ranked |-> SortByHybridScore(_apply_post_processing(
                                    recommendations,
                                    [Engine EXCEPT !.popular_jobs = TenPopularJobs],
                                    conf))]
    /\ UNCHANGED <<conf, dbVer, engineVars, cacheHistory, coroutines,
                   last_initialize>>

\* the longest text the word-overlap similarity is called on
MaxTextLen == 3

\* a word character in lower and in upper case, another word character, and
\* a character \w does not match
TextAlphabet == {"a", "b", "B", "-"}

\* the texts of at most MaxTextLen characters, the empty one among them
Texts == UNION {[1..n -> TextAlphabet] : n \in 0..MaxTextLen}

\* _calculate_simple_text_similarity called on two texts, on the two
\* exchanged, and on the first with itself
SimpleSimilarity(user_text, job_text) ==
    /\ resp = Idle
    /\ resp' = [op |-> "_calculate_simple_text_similarity",
                user_text |-> user_text,
                job_text |-> job_text,
                similarity |-> _calculate_simple_text_similarity(user_text, job_text),
                exchanged |-> _calculate_simple_text_similarity(job_text, user_text),
                with_itself |-> _calculate_simple_text_similarity(user_text, user_text)]
    /\ UNCHANGED <<conf, dbVer, engineVars, cacheHistory, coroutines,
                   last_initialize>>

\* the dimensions whose computation stored data can make raise: skill.lower()
\* on a skill whose name is not a string, len() of a work_experience that is
\* a JSON number; the other three read only strings and literals
RaisingDimensions == {"skills", "experience"}

\* _calculate_content_score for a user and a job of the catalogue, the
\* sub-score computation of `raising` raising ("none": none does); the skills
\* sub-score is computed only for a user with skills, the length of the work
\* experience is taken only for a user with a completed resume
ContentScore(user_id, job_id, raising) ==
    /\ resp = Idle
    /\ \E user_profile \in {_build_user_profile(user_id, FALSE, FALSE)},
          job_profile \in {_build_job_profile(ActiveJobRow(dbVer, job_id))},
          mapping \in {get_job_categories_mapping(dbVer, FALSE)} :
          /\ user_profile.tag # "None"
          /\ raising = "skills" => Truthy(user_profile.skills)
          /\ raising = "experience" => user_profile.has_completed_resume
          /\ resp' = [op |-> "_calculate_content_score",
                      user_id |-> user_id,
                      job_id |-> job_id,
                      raising |-> raising,
                      contributions |->
                          ContentContributions(user_profile, job_profile, mapping),
                      content |->
                          _calculate_content_score_raising(user_profile,
                              job_profile, mapping, raising)]
    /\ UNCHANGED <<conf, dbVer, engineVars, cacheHistory, coroutines,
                   last_initialize>>

\* the users the database holds a profile of, and one it holds none of
ProfiledUserIds == DOMAIN UserProfileRows \cup {3}

\* _build_user_profile called for a user; either read may fail
BuildUserProfile(user_id, profile_fails, resume_fails) ==
    /\ resp = Idle
    /\ resp' = [op |-> "_build_user_profile",
                user_id |-> user_id,
                profile_fails |-> profile_fails,
                resume_fails |-> resume_fails,
                user_profile |->
                    _build_user_profile(user_id, profile_fails, resume_fails)]
    /\ UNCHANGED <<conf, dbVer, engineVars, cacheHistory, coroutines,
                   last_initialize>>

\* one call at a time: the next is made once the last has been answered
UnitNext ==
    \/ /\ resp = Idle
       /\ \E user_id \in ProfiledUserIds, profile_fails, resume_fails \in BOOLEAN :
               BuildUserProfile(user_id, profile_fails, resume_fails)
    \/ /\ resp = Idle
       /\ \E user_id \in UserIds, job_id \in JobIds,
             raising \in RaisingDimensions \cup {"none"} :
               ContentScore(user_id, job_id, raising)
    \/ /\ resp = Idle /\ conf = DevelopmentConfig
       /\ \E user_text, job_text \in Texts :
            SimpleSimilarity(user_text, job_text)
    \/ /\ resp = Idle
       /\ \E hybrid_score \in HybridScores, c1, c2, c3 \in JobCategories,
             third \in {0, 2, 12}, third_score \in {Pct(30), Pct(97)},
             popular_first \in BOOLEAN :
               PostProcess(hybrid_score, c1, c2, popular_first, third,
                   third_score, c3)
    \/ Answer /\ UNCHANGED <<cacheHistory, coroutines, last_initialize>>

UnitSpec == UnitInit /\ [][UnitNext]_vars

-----------------------------------------------------------------------------
(* Properties of the post-processor on its own (UnitSpec) *)

PostProcessed == resp.op = "_apply_post_processing"

\* where the job stands in the ranked list
RankOf(job_id) ==
    CHOOSE k \in DOMAIN resp.ranked : resp.ranked[k].job_id = job_id

\* the candidate at index i is of the first job of a ten-element popular-jobs
\* list, the one at index j is of a job not in the list, and the two have the
\* same pre-boost hybrid score
TiedPopularAndOther(i, j) ==
    /\ Len(resp.popular_jobs) = 10
    /\ resp.recommendations[i].job_id = resp.popular_jobs[1]
    /\ resp.recommendations[j].job_id \notin RangeOf(resp.popular_jobs)
    /\ resp.recommendations[i].hybrid_score
            = resp.recommendations[j].hybrid_score

\* the popular job ends with the strictly greater hybrid score and strictly
\* earlier in the list
PopularWins(i, j) ==
    /\ resp.ranked[RankOf(resp.recommendations[i].job_id)].hybrid_score
            > resp.ranked[RankOf(resp.recommendations[j].job_id)].hybrid_score
    /\ RankOf(resp.recommendations[i].job_id)
            < RankOf(resp.recommendations[j].job_id)

\* C22 (as claimed): of two retained jobs with equal pre-boost hybrid score,
\* one first in a ten-element popular-jobs list and the other not in it, the
\* popular one ends with the strictly greater score and strictly earlier,
\* for every pre-boost score and every category assignment.
C22_PopularWinsEveryTie ==
    PostProcessed =>
        \A i, j \in DOMAIN resp.recommendations :
            TiedPopularAndOther(i, j) => PopularWins(i, j)

\* C22 (amended): the same for every pre-boost score below 0.95, which
\* covers every score the default weights can produce; from 0.95 on the
\* clamp at 1.0 can leave the two equal.
C22_PopularWinsTieBelowClamp ==
    PostProcessed =>
        \A i, j \in DOMAIN resp.recommendations :
            TiedPopularAndOther(i, j)
                /\ resp.recommendations[i].hybrid_score < Pct(95)
            => PopularWins(i, j)

\* two jobs tied at 0.94: the other one came first in the batch and, alone
\* in its category, gained the diversity bonus; the popular one shares its
\* category with a third job, is clamped at 1.0 and is ranked before it
C22_Witness ==
    /\ PostProcessed
    /\ conf.ENABLE_DIVERSITY_BOOST
    /\ Len(resp.recommendations) = 3
    /\ TiedPopularAndOther(2, 1)
    /\ resp.recommendations[1].hybrid_score = Pct(94)
    /\ resp.recommendations[2].job_category = resp.recommendations[3].job_category
    /\ resp.recommendations[1].job_category # resp.recommendations[2].job_category
    /\ resp.ranked[RankOf(resp.recommendations[1].job_id)].hybrid_score = Pct(99)
    /\ resp.ranked[RankOf(resp.recommendations[2].job_id)].hybrid_score = Scale
    /\ RankOf(resp.recommendations[2].job_id)
            < RankOf(resp.recommendations[1].job_id)

-----------------------------------------------------------------------------
(* One request made twice in a row: the second call has the arguments of    *)
(* the first and meets the same database, with the same reads failing, and  *)
(* finds the engine as the first call left it.  Requests ask for MaxLimit   *)
(* recommendations, with or without their reasons.                          *)

\* the deployments the request is repeated under: the default one, the
\* testing one, the one with the small cache and the one without the
\* embedding library
RepeatDeployments ==
    {d \in Deployments :
        /\ d.SKLEARN_AVAILABLE
        /\ d.ENABLE_POPULARITY_BOOST /\ d.ENABLE_DIVERSITY_BOOST}

RepeatInit == Init /\ conf \in RepeatDeployments

\* the caller makes the request it has just made once more
GetRecommendationsAgain ==
    /\ resp.op = "get_recommendations"
    /\ \E call \in {get_recommendations(Engine, conf, dbVer, resp.user_id,
                        resp.limit, resp.include_reasons, resp.faults)} :
          /\ embeddings_cache' = call.cache
          /\ resp' = [op |-> "get_recommendations_again",
                      user_id |-> resp.user_id,
                      limit |-> resp.limit,
                      include_reasons |-> resp.include_reasons,
                      faults |-> resp.faults,
                      first |-> resp.call,
                      call |-> call,
                      http |-> RecommendationsEndpoint(call)]
    /\ UNCHANGED <<conf, dbVer, is_initialized, sentence_model,
                   tfidf_vectorizer, job_categories_mapping, popular_jobs,
                   features_used, cacheHistory, coroutines, last_initialize>>

RepeatNext ==
    \/ \E load_fails, mapping_fails, popular_fails \in BOOLEAN :
            Initialize(load_fails, mapping_fails, popular_fails)
                /\ UNCHANGED <<cacheHistory, coroutines, last_initialize>>
    \/ \E mapping_fails, popular_fails \in BOOLEAN :
            RetrainModels(mapping_fails, popular_fails)
                /\ UNCHANGED <<cacheHistory, coroutines, last_initialize>>
    \/ \E user_id \in UserIds, include_reasons \in BOOLEAN,
          faults \in FaultCases :
            GetRecommendations(user_id, MaxLimit, include_reasons, faults)
                /\ UNCHANGED <<cacheHistory, coroutines, last_initialize>>
    \/ GetRecommendationsAgain
    \/ Answer /\ UNCHANGED <<cacheHistory, coroutines, last_initialize>>
    \/ DbUpdate /\ UNCHANGED <<cacheHistory, coroutines, last_initialize>>

RepeatSpec == RepeatInit /\ [][RepeatNext]_vars

-----------------------------------------------------------------------------
(* Properties of the word-overlap similarity (UnitSpec) *)

\* C24 (as claimed): the word-overlap similarity is symmetric, and the
\* similarity of every non-empty text with itself is 1.0.
C24_SymmetricSelfOneNonEmpty ==
    resp.op = "_calculate_simple_text_similarity" =>
        /\ resp.similarity = resp.exchanged
        /\ resp.user_text # <<>> => resp.with_itself = Scale

\* C24 (amended): the word-overlap similarity is symmetric, and the
\* similarity of a text with itself is 1.0 when the text has at least one
\* word character and 0.0 when it has none, be it empty or not.
C24_SymmetricSelfOneWithWord ==
    resp.op = "_calculate_simple_text_similarity" =>
        /\ resp.similarity = resp.exchanged
        /\ resp.with_itself =
              (IF \E k \in DOMAIN resp.user_text : resp.user_text[k] \in WordChars
               THEN Scale ELSE 0)

\* two texts that share one word of two, one of them writing it in upper
\* case after a character that is not a word character: the similarity is
\* one half both ways, and that of the first text with itself is 1.0
C24_Witness ==
    /\ resp.op = "_calculate_simple_text_similarity"
    /\ resp.user_text # resp.job_text
    /\ \E k \in DOMAIN resp.user_text : resp.user_text[k] \notin WordChars
    /\ \E k \in DOMAIN resp.user_text : resp.user_text[k] \in DOMAIN UpperToLower
    /\ resp.similarity = Scale \div 2
    /\ resp.exchanged = Scale \div 2
    /\ resp.with_itself = Scale

-----------------------------------------------------------------------------
(* Properties of the content scorer on its own (UnitSpec) *)

\* what the dimensions other than d add together when each is computed
ContributionsWithout(d) ==
    (IF d = "skills" THEN 0 ELSE resp.contributions.skills)
    + (IF d = "education" THEN 0 ELSE resp.contributions.education)
    + (IF d = "experience" THEN 0 ELSE resp.contributions.experience)
    + (IF d = "course" THEN 0 ELSE resp.contributions.course)
    + (IF d = "location" THEN 0 ELSE resp.contributions.location)

\* C25 (as claimed): when the computation of one dimension of the content
\* score raises, that dimension alone adds 0: every other dimension, those
\* computed after the failing one included, adds its weight times its
\* sub-score, and a content score is returned.
C25_OnlyFailingDimensionLost ==
    resp.op = "_calculate_content_score" /\ resp.raising # "none" =>
        resp.content.score = Min(Scale, ContributionsWithout(resp.raising))

-----------------------------------------------------------------------------
(* Properties of the engine's shared tables (CacheSpec) *)

\* C26: get_recommendations never changes the course-category mapping or the
\* popular-jobs list: a request, successful or failed, leaves both as they
\* were, and whenever one of them changes the step is a call of initialize or
\* of retrain_models, so that both always hold what the last of these
\* installed.
C26_RequestsLeaveTablesAlone ==
    [][/\ resp'.op = "get_recommendations" /\ resp.op # "get_recommendations" =>
            /\ job_categories_mapping' = job_categories_mapping
            /\ popular_jobs' = popular_jobs
       /\ (job_categories_mapping' # job_categories_mapping
            \/ popular_jobs' # popular_jobs) =>
                resp'.op \in {"initialize", "retrain_models"}]_vars

\* a request that scored against a loaded mapping, looked its jobs up in a
\* loaded popular list and returned recommendations
C26_Witness ==
    /\ Requested
    /\ resp.call.result # <<>>
    /\ job_categories_mapping # <<>>
    /\ popular_jobs # <<>>
    /\ conf.ENABLE_POPULARITY_BOOST

-----------------------------------------------------------------------------
(* Properties of the user profile (UnitSpec) *)

ResumeFields ==
    {"skills", "work_experience", "education", "professional_summary",
     "languages", "hobbies"}

\* C27 (as claimed): every UserProfile _build_user_profile returns has its
\* resume fields all or nothing: without a completed resume all six are
\* absent (None), with one none of the six is absent, whatever resume row
\* the database returns, a row with a NULL or unparsable JSON field
\* included.
C27_ResumeAllOrNothing ==
    resp.op = "_build_user_profile" /\ resp.user_profile.tag # "None" =>
        IF resp.user_profile.has_completed_resume
        THEN \A f \in ResumeFields : resp.user_profile[f].tag # "None"
        ELSE \A f \in ResumeFields : resp.user_profile[f] = PyNone

-----------------------------------------------------------------------------
(* Properties of the default threshold (CacheSpec) *)

\* the largest content score of a user without a completed resume: 0.42
MaxContentWithoutResume ==
    (EDUCATION_WEIGHT * 64 + EXPERIENCE_WEIGHT * 30 + COURSE_WEIGHT * 100
        + LOCATION_WEIGHT * 50) * (Scale \div (100 * 100))

\* C28: under the default weights and the default minimum score 0.3, a
\* request for a user without a completed resume returns an empty list,
\* whatever jobs are open, whatever the user's student type and courses and
\* whatever mapping is loaded: no job scored for the user gets a hybrid score
\* above 0.4 * 0.42 = 0.168, and none is retained.
C28_NoResumeNothingRecommended ==
    /\ Requested
    /\ conf.MIN_RECOMMENDATION_SCORE = Pct(DEFAULT_MIN_RECOMMENDATION_SCORE)
    /\ NoCompletedResume(resp.user_id, resp.faults)
    => /\ resp.call.result = <<>>
       /\ \A k \in DOMAIN resp.call.scored :
            /\ resp.call.scored[k].hybrid_score
                    <= HybridScore(MaxContentWithoutResume, 0)
            /\ HybridScore(MaxContentWithoutResume, 0) = 168000
            /\ resp.call.scored[k].hybrid_score
                    < Pct(DEFAULT_MIN_RECOMMENDATION_SCORE)
            /\ ~resp.call.scored[k].retained

\* a graduate whose resume cannot be read is scored against entry-level jobs
\* of the category the loaded mapping gives the course: the bound 0.168 is
\* reached
C28_Witness ==
    /\ Requested
    /\ conf.MIN_RECOMMENDATION_SCORE = Pct(DEFAULT_MIN_RECOMMENDATION_SCORE)
    /\ NoCompletedResume(resp.user_id, resp.faults)
    /\ Len(resp.call.scored) >= 2
    /\ \E k \in DOMAIN resp.call.scored :
            resp.call.scored[k].hybrid_score = 168000

-----------------------------------------------------------------------------
(* Properties of readiness (ReadySpec) *)

\* C29: readiness is monotone.  is_ready() is false from construction; it
\* becomes true only when a call of initialize returns without raising, so a
\* call that raises leaves it false; and once it is true no later
\* get_recommendations, retrain_models or initialize, returning or raising,
\* makes it false again.
C29_ReadinessMonotone ==
    /\ ~is_ready(Engine)
    /\ [][/\ is_ready(Engine) => is_ready(Engine)'
          /\ ~is_ready(Engine) /\ is_ready(Engine)' =>
                /\ resp'.op = "initialize"
                /\ resp'.exception = NoException]_vars

\* a call of initialize raised on an engine that was ready, and the engine is
\* still ready
C29_Witness ==
    /\ is_ready(Engine)
    /\ resp.op = "initialize"
    /\ resp.exception = CancelledError

-----------------------------------------------------------------------------
(* Properties of a reload that fails (CacheSpec) *)

\* C30: when the read of the course-category mapping or of the popular jobs
\* fails during retrain_models, retrain_models still returns without
\* raising, and the engine then holds an empty mapping or an empty list, not
\* the value it held before.  With an empty mapping the course fit of every
\* user for every job is 0; with an empty list no recommendation of a
\* request gets a popularity boost.
C30_FailedReloadEmpties ==
    /\ resp.op = "retrain_models" =>
            /\ resp.exception = NoException
            /\ resp.mapping_fails => job_categories_mapping = <<>>
            /\ resp.popular_fails /\ conf.ENABLE_POPULARITY_BOOST =>
                    popular_jobs = <<>>
    /\ job_categories_mapping = <<>> =>
            \A u \in DOMAIN UserProfileRows, j \in JobIds :
                _calculate_course_match(get_user_profile(u, FALSE).courses_list,
                    JobRows[j].category, job_categories_mapping) = 0
    /\ Requested /\ popular_jobs = <<>> =>
            \A j \in DOMAIN resp.call.ranked :
                resp.call.ranked[j].hybrid_score \in
                    {CandidateOf(resp.call.ranked[j]).hybrid_score,
                     Min(Scale, CandidateOf(resp.call.ranked[j]).hybrid_score
                                    + Pct(DIVERSITY_BOOST))}

\* both reads failed in a retrain of a ready engine whose database holds a
\* mapping and open jobs
C30_Witness ==
    /\ resp.op = "retrain_models"
    /\ resp.mapping_fails /\ resp.popular_fails
    /\ conf.ENABLE_POPULARITY_BOOST
    /\ is_initialized
    /\ get_job_categories_mapping(dbVer, FALSE) # <<>>
    /\ get_popular_jobs(dbVer, POPULAR_JOBS_LIMIT, FALSE) # <<>>
    /\ job_categories_mapping = <<>>
    /\ popular_jobs = <<>>

=============================================================================
